---- MODULE Spec2Model ----
(***************************************************************************)
(* Model of dagshub/streaming/filesystem.py: the DagsHubFilesystem class   *)
(* (open, stat, chdir, listdir, the shared listing cache, install_hooks    *)
(* and uninstall_hooks) over one local disk, the process-ambient file      *)
(* primitives and a fixed remote repository per filesystem instance; and   *)
(* of dagshub/auth/tokens.py: the TokenStorage class over its cache file,  *)
(* the identity endpoint and the OAuth flow.                               *)
(***************************************************************************)
EXTENDS Integers, Sequences, FiniteSets, TLC

VARIABLES
    disk,             \* local disk: absolute path -> "none" | "dir" | file bytes
    cwd,              \* the process working directory (absolute path)
    cache,            \* the cache dict of cache_by_path (one for the class)
    dirtree,          \* dirtree[m]: self.dirtree of instance m
    ambient,          \* the ambient primitives: slot -> 0 (original) | m (bound method of m)
    unpatched,        \* DagsHubFilesystem.__unpatched (class attribute)
    hooked_instance,  \* DagsHubFilesystem.hooked_instance (class attribute), 0 = unset
    active,           \* history: the mounts whose install_hooks returned and that no
                      \* uninstall_hooks call has named or covered since
    remote_up         \* the remote answers requests with a 2xx response (response.ok)

vars == <<disk, cwd, cache, dirtree, ambient, unpatched, hooked_instance, active, remote_up>>

VARIABLES
    token_file,       \* the cache file at cache_location
    token_cache,      \* TokenStorage.__token_cache (not loaded, or host -> list of tokens)
    known_good,       \* TokenStorage._known_good_tokens: host -> set of tokens
    now,              \* the clock (datetime.utcnow())
    config_token      \* config.token: <<>> (None) or <<text>>

tokvars == <<token_file, token_cache, known_good, now, config_token>>

allvars == <<vars, tokvars>>

VARIABLES
    adder,            \* the thread that runs add_app_token / add_oauth_token (add_token)
    getter,           \* the thread that runs get_token_object
    lock,             \* TokenStorage._token_access_lock: 0 (free) or the thread that holds it
    issued,           \* the number of tokens the OAuth flow issued in this process
    inserted          \* history: the tokens a call appended to the host's list and
                      \* remove_token has not removed since

lockvars == <<adder, getter, lock, issued, inserted>>

VARIABLES
    opener            \* opener[t]: the thread t inside DagsHubFilesystem.open, and what it got

openvars == <<opener>>

VARIABLES
    stat_objs         \* the dagshub_stat_result objects the program holds

statvars == <<stat_objs>>

VARIABLES
    branch_head,      \* the commit the branch of the remote repositories points at
    revision_cache,   \* the lru_cache of _current_revision: instance -> <<>> or <<sha>>
    sent              \* history: the content and raw requests sent, with the revision in the URL
                      \* and the head of the branch at that moment

revvars == <<branch_head, revision_cache, sent>>

VARIABLES
    token_storage,    \* the module global _token_storage: 0 (None) or the instance it names
    storage_locks,    \* the TokenStorage instances constructed so far: storage_locks[i] is
                      \* the _token_access_lock of instance i, 0 (free) or the thread holding it
    caller            \* caller[t]: the thread t inside the module function get_token_object

storevars == <<token_storage, storage_locks, caller>>

extravars == <<revvars, storevars>>

auxvars == <<lockvars, openvars, statvars, extravars>>

-----------------------------------------------------------------------------
(* The instances and their repositories (tests/dda/filesystem fixtures).   *)

\* three DagsHubFilesystem instances, constructed in this order
Mounts == {1, 2, 3}

\* self.project_root: 1 at /m, 2 nested at /m/repo2, 3 at /m again
project_root(m) ==
    CASE m = 1 -> <<"m">>
      [] m = 2 -> <<"m", "repo2">>
      [] m = 3 -> <<"m">>

\* the files of the remote repository of instance m at its revision
RepoFiles(m) ==
    CASE m = 1 -> (<<"a", "b.txt">> :> "content repo 1") @@ (<<"repo2", "a", "b.txt">> :> "FAILED")
      [] m = 2 -> (<<"a", "b.txt">> :> "content repo 2")
      [] m = 3 -> (<<"a", "b.txt">> :> "content repo 2")

SPECIAL_FILE == <<".dagshub-streaming">>

special_file == "v0\n"

IsPrefix(s, t) == Len(s) <= Len(t) /\ SubSeq(t, 1, Len(s)) = s

Parent(p) == IF Len(p) = 0 THEN p ELSE SubSeq(p, 1, Len(p) - 1)

Name(p) == IF Len(p) = 0 THEN "" ELSE p[Len(p)]

\* the absolute paths the model tracks on the local disk
AbsPaths ==
    { <<>>, <<"o.txt">>, <<"m">>,
      <<"m", ".git">>, <<"m", ".git", "config">>,
      <<"m", "a">>, <<"m", "a", "b.txt">>, <<"m", "zzz">>,
      <<"m", ".dagshub-streaming">>,
      <<"m", "repo2">>, <<"m", "repo2", "a">>, <<"m", "repo2", "a", "b.txt">>,
      <<"m", "repo2", "zzz">>, <<"m", "repo2", ".dagshub-streaming">> }

\* a path argument: absolute, or relative to the working directory
AbsArg(p) == [rel |-> FALSE, segs |-> p]

RelArg(p) == [rel |-> TRUE, segs |-> p]

Resolve(c, arg) == IF arg.rel THEN c \o arg.segs ELSE arg.segs

-----------------------------------------------------------------------------
(* The remote content API and raw API of one repository.                   *)

RemoteIsFile(m, rel) == rel \in DOMAIN RepoFiles(m)

RemoteIsDir(m, rel) ==
    \E f \in DOMAIN RepoFiles(m) : IsPrefix(rel, f) /\ Len(rel) < Len(f)

\* the 2xx response of the content API for a remote directory: its children
Listing(m, rel) ==
    [ok |-> TRUE,
     entries |-> { [name |-> f[Len(rel) + 1],
                    type |-> IF Len(f) = Len(rel) + 1 THEN "file" ELSE "dir"] :
                   f \in { g \in DOMAIN RepoFiles(m) : IsPrefix(rel, g) /\ Len(rel) < Len(g) } }]

\* GET <content_api_url>/<rel>: the children of a remote directory, else not ok
ContentResponse(m, rel) ==
    IF remote_up /\ RemoteIsDir(m, rel)
    THEN Listing(m, rel)
    ELSE [ok |-> FALSE, entries |-> {}]

\* the status of GET <raw_api_url>/<rel>: 200 for a remote file, 404 for any other path,
\* 503 from a remote that fails
raw_status(m, rel) ==
    IF ~remote_up THEN 503 ELSE IF RemoteIsFile(m, rel) THEN 200 ELSE 404

\* GET <raw_api_url>/<rel>: the bytes of a remote file, else not ok
api_download_file_git(m, rel) ==
    IF remote_up /\ RemoteIsFile(m, rel)
    THEN [ok |-> TRUE, content |-> RepoFiles(m)[rel]]
    ELSE [ok |-> FALSE, content |-> ""]

NoReqs == {}

Req(m, kind, rel) == [fs |-> m, kind |-> kind, rel |-> rel]

\* the key (path, include_size) of the cache dict; a str and a Path never compare equal
CacheKey(isStr, rel) == [str |-> isStr, segs |-> rel, include_size |-> FALSE]

\* the key (path, include_size) of a request that names include_size
SizedKey(isStr, rel, include_size) == [str |-> isStr, segs |-> rel, include_size |-> include_size]

\* GET <content_api_url>/<rel> with params include_size=true: the children with their sizes
SizedResponse(m, rel) ==
    IF remote_up /\ RemoteIsDir(m, rel)
    THEN [ok |-> TRUE,
          entries |-> { [name |-> f.name, type |-> f.type, size |-> 1100] :
                        f \in Listing(m, rel).entries }]
    ELSE [ok |-> FALSE, entries |-> {}]

\* the wrapper of cache_by_path: one dict for every instance, keyed without self; a request
\* without sizes first takes over the entry with sizes when there is one
cache_by_path(c, m, isStr, rel, include_size) ==
    LET k == SizedKey(isStr, rel, include_size)
        kT == SizedKey(isStr, rel, TRUE)
        c1 == IF ~include_size /\ kT \in DOMAIN c THEN (k :> c[kT]) @@ c ELSE c
        func == IF include_size THEN SizedResponse(m, rel) ELSE ContentResponse(m, rel) IN
    IF k \in DOMAIN c1
    THEN [cache |-> c1, resp |-> c1[k], reqs |-> NoReqs]
    ELSE [cache |-> (k :> func) @@ c1,
          resp |-> func,
          reqs |-> {Req(m, "list", rel)}]

\* self._api_listdir(path): the calls of the class leave include_size at its default
api_listdir(c, m, isStr, rel) == cache_by_path(c, m, isStr, rel, FALSE)

-----------------------------------------------------------------------------
(* The original primitives on the local disk.                              *)

Node(d, p) == IF p \in DOMAIN d THEN d[p] ELSE "none"

IsFileNode(v) == v \notin {"none", "dir"}

\* errno of walking to p: a missing component, or a file used as a directory
RECURSIVE WalkErr(_, _, _)
WalkErr(d, p, i) ==
    IF i >= Len(p) THEN "ok"
    ELSE LET v == Node(d, SubSeq(p, 1, i)) IN
         IF v = "none" THEN "ENOENT"
         ELSE IF v # "dir" THEN "ENOTDIR"
         ELSE WalkErr(d, p, i + 1)

\* io.open(p, mode): read modes need the file, write modes create or truncate it
orig_open(d, p, mode) ==
    LET w == WalkErr(d, p, 0)
        v == Node(d, p) IN
    IF w # "ok" THEN [st |-> w, data |-> "", disk |-> d]
    ELSE IF v = "dir" THEN [st |-> "EISDIR", data |-> "", disk |-> d]
    ELSE IF mode = "r"
         THEN IF v = "none" THEN [st |-> "ENOENT", data |-> "", disk |-> d]
              ELSE [st |-> "ok", data |-> v, disk |-> d]
    ELSE IF p \in DOMAIN d
         THEN [st |-> "ok", data |-> "", disk |-> [d EXCEPT ![p] = ""]]
         ELSE [st |-> "EACCES", data |-> "", disk |-> d]

\* os.stat(p)
orig_stat(d, p) ==
    LET w == WalkErr(d, p, 0)
        v == Node(d, p) IN
    IF w # "ok" THEN [st |-> w, kind |-> "none"]
    ELSE IF v = "none" THEN [st |-> "ENOENT", kind |-> "none"]
    ELSE IF v = "dir" THEN [st |-> "ok", kind |-> "real_dir"]
    ELSE [st |-> "ok", kind |-> "real_file"]

\* os.listdir(p)
orig_listdir(d, p) ==
    LET w == WalkErr(d, p, 0)
        v == Node(d, p) IN
    IF w # "ok" THEN [st |-> w, names |-> {}]
    ELSE IF v = "none" THEN [st |-> "ENOENT", names |-> {}]
    ELSE IF v # "dir" THEN [st |-> "ENOTDIR", names |-> {}]
    ELSE [st |-> "ok",
          names |-> { Name(q) : q \in { r \in DOMAIN d : Len(r) = Len(p) + 1 /\ IsPrefix(p, r)
                                                        /\ d[r] # "none" } }]

\* os.scandir(p): the entries, by name
orig_scandir(d, p) == orig_listdir(d, p)

\* os.chdir(p)
orig_chdir(d, p) ==
    LET w == WalkErr(d, p, 0)
        v == Node(d, p) IN
    IF w # "ok" THEN w
    ELSE IF v = "none" THEN "ENOENT"
    ELSE IF v # "dir" THEN "ENOTDIR"
    ELSE "ok"

-----------------------------------------------------------------------------
(* DagsHubFilesystem: the private accessors and helpers.                   *)

\* cls.__unpatched[key] when the class attribute exists, else the ambient primitive
get_unpatched(key) ==
    IF unpatched.set THEN unpatched[key]
    ELSE CASE key = "open" -> ambient.io_open
           [] key = "stat" -> ambient.os_stat
           [] key = "listdir" -> ambient.os_listdir
           [] key = "scandir" -> ambient.os_scandir
           [] key = "chdir" -> ambient.os_chdir

\* self.__open / __stat / __listdir / __chdir: the saved primitive, applied
u_open(d, p, mode) ==
    IF get_unpatched("open") = 0 THEN orig_open(d, p, mode)
    ELSE [st |-> "hooked", data |-> "", disk |-> d]

u_stat(d, p) ==
    IF get_unpatched("stat") = 0 THEN orig_stat(d, p) ELSE [st |-> "hooked", kind |-> "none"]

u_listdir(d, p) ==
    IF get_unpatched("listdir") = 0 THEN orig_listdir(d, p) ELSE [st |-> "hooked", names |-> {}]

u_scandir(d, p) ==
    IF get_unpatched("scandir") = 0 THEN orig_scandir(d, p) ELSE [st |-> "hooked", names |-> {}]

u_chdir(d, p) ==
    IF get_unpatched("chdir") = 0 THEN orig_chdir(d, p) ELSE "hooked"

\* _relative_path: the path below project_root, or None
relative_path(m, arg) ==
    LET path == Resolve(cwd, arg) IN
    IF IsPrefix(project_root(m), path)
    THEN [some |-> TRUE, rel |-> SubSeq(path, Len(project_root(m)) + 1, Len(path))]
    ELSE [some |-> FALSE, rel |-> <<>>]

\* _passthrough_path: str(relative_path).startswith(('.git/', '.dvc/'))
passthrough_path(rel) == Len(rel) >= 2 /\ rel[1] \in {".git", ".dvc"}

\* _mkdirs: stat each ancestor from the top and the path itself, mkdir what is missing
RECURSIVE mkdirs_from(_, _, _, _)
mkdirs_from(d, root, rel, i) ==
    IF i > Len(rel) THEN [st |-> "ok", disk |-> d]
    ELSE LET q == root \o SubSeq(rel, 1, i) IN
         IF u_stat(d, q).st = "ok" THEN mkdirs_from(d, root, rel, i + 1)
         ELSE IF WalkErr(d, q, 0) # "ok" THEN [st |-> WalkErr(d, q, 0), disk |-> d]
         ELSE IF q \notin DOMAIN d THEN [st |-> "EACCES", disk |-> d]
         ELSE mkdirs_from([d EXCEPT ![q] = "dir"], root, rel, i + 1)

mkdirs(d, m, rel) == mkdirs_from(d, project_root(m), rel, 0)

\* what a call leaves behind and returns (fields a call does not use keep these values)
Outcome ==
    [st |-> "ok", data |-> "", names |-> {}, kind |-> "none", reqs |-> NoReqs,
     disk |-> disk, cache |-> cache, dirtree |-> dirtree, cwd |-> cwd]

-----------------------------------------------------------------------------
(* DagsHubFilesystem.open                                                  *)

\* open_miss that hands the downloaded bytes back without writing them under the root
open_miss_unwritten(m, rel, mode) ==
    LET resp == api_download_file_git(m, rel)
        rq == {Req(m, "raw", rel)} IN
    IF ~resp.ok THEN [Outcome EXCEPT !.st = "ENOENT", !.reqs = rq]
    ELSE [Outcome EXCEPT !.data = resp.content, !.reqs = rq]

\* the except FileNotFoundError branch of open: download, _mkdirs, write, reopen
open_miss(m, rel, mode) ==
    LET p == project_root(m) \o rel
        resp == api_download_file_git(m, rel)
        rq == {Req(m, "raw", rel)} IN
    IF ~resp.ok THEN [Outcome EXCEPT !.st = "ENOENT", !.reqs = rq]
    ELSE LET mk == mkdirs(disk, m, Parent(rel)) IN
         IF mk.st # "ok" THEN [Outcome EXCEPT !.st = mk.st, !.reqs = rq, !.disk = mk.disk]
         ELSE LET wr == u_open(mk.disk, p, "w") IN
              IF wr.st # "ok" THEN [Outcome EXCEPT !.st = wr.st, !.reqs = rq, !.disk = wr.disk]
              ELSE LET written == [wr.disk EXCEPT ![p] = resp.content]
                       re == u_open(written, p, mode) IN
                   [Outcome EXCEPT !.st = re.st, !.data = re.data, !.reqs = rq, !.disk = re.disk]

open(m, arg, mode) ==
    LET rp == relative_path(m, arg)
        p == project_root(m) \o rp.rel IN
    IF ~rp.some
    THEN LET o == u_open(disk, Resolve(cwd, arg), mode) IN
         [Outcome EXCEPT !.st = o.st, !.data = o.data, !.disk = o.disk]
    ELSE IF passthrough_path(rp.rel)
    THEN LET o == u_open(disk, p, mode) IN
         [Outcome EXCEPT !.st = o.st, !.data = o.data, !.disk = o.disk]
    ELSE IF rp.rel = SPECIAL_FILE
    THEN [Outcome EXCEPT !.data = special_file]
    ELSE LET o == u_open(disk, p, mode) IN
         IF o.st # "ENOENT"
         THEN [Outcome EXCEPT !.st = o.st, !.data = o.data, !.disk = o.disk]
         ELSE open_miss(m, rp.rel, mode)

-----------------------------------------------------------------------------
(* DagsHubFilesystem.stat                                                  *)

\* str(relative_path.parent), as a key of self.dirtree
ParentKey(rel) == RelArg(Parent(rel))

stat(m, arg) ==
    LET rp == relative_path(m, arg)
        p == project_root(m) \o rp.rel IN
    IF ~rp.some
    THEN LET o == u_stat(disk, Resolve(cwd, arg)) IN [Outcome EXCEPT !.st = o.st, !.kind = o.kind]
    ELSE IF passthrough_path(rp.rel)
    THEN LET o == u_stat(disk, p) IN [Outcome EXCEPT !.st = o.st, !.kind = o.kind]
    ELSE IF rp.rel = SPECIAL_FILE
    THEN [Outcome EXCEPT !.st = "TypeError"]
    ELSE LET o == u_stat(disk, p) IN
         IF o.st # "ENOENT"
         THEN [Outcome EXCEPT !.st = o.st, !.kind = o.kind]
         ELSE IF /\ ParentKey(rp.rel) \in DOMAIN dirtree[m]
                 /\ Name(rp.rel) \notin dirtree[m][ParentKey(rp.rel)]
              THEN [Outcome EXCEPT !.kind = "synthetic"]
              ELSE [Outcome EXCEPT !.st = o.st, !.kind = o.kind]

\* dagshub_stat_result.__getattr__ before the file is fetched: the st_ fields
dagshub_stat_result ==
    [st_mode |-> "0o100644", st_size |-> 1100, st_uid |-> "getuid", st_gid |-> "getgid",
     st_atime |-> 0, st_mtime |-> 0, st_ctime |-> 0]

-----------------------------------------------------------------------------
(* DagsHubFilesystem.listdir                                               *)

\* listdir that adds the sentinel name to the names of a remote listing only
listdir_sentinel_if_listed(m, arg) ==
    LET rp == relative_path(m, arg)
        p == project_root(m) \o rp.rel IN
    IF ~rp.some
    THEN LET o == u_listdir(disk, Resolve(cwd, arg)) IN [Outcome EXCEPT !.st = o.st, !.names = o.names]
    ELSE IF passthrough_path(rp.rel)
    THEN LET o == u_listdir(disk, p) IN [Outcome EXCEPT !.st = o.st, !.names = o.names]
    ELSE LET loc == u_listdir(disk, p) IN
         IF loc.st \notin {"ok", "ENOENT"}
         THEN [Outcome EXCEPT !.st = loc.st]
         ELSE LET dircontents == loc.names
                  r == api_listdir(cache, m, FALSE, rp.rel) IN
              IF r.resp.ok
              THEN [Outcome EXCEPT
                      !.names = dircontents \cup { f.name : f \in r.resp.entries }
                                \cup (IF rp.rel = <<>> THEN {SPECIAL_FILE[1]} ELSE {}),
                      !.reqs = r.reqs,
                      !.cache = r.cache,
                      !.dirtree = [dirtree EXCEPT ![m] =
                          (arg :> { f.name : f \in { g \in r.resp.entries : g.type = "dir" } }) @@ @]]
              ELSE IF loc.st = "ENOENT"
                   THEN [Outcome EXCEPT !.st = "ENOENT", !.reqs = r.reqs, !.cache = r.cache]
                   ELSE [Outcome EXCEPT !.names = dircontents, !.reqs = r.reqs, !.cache = r.cache]

listdir(m, arg) ==
    LET rp == relative_path(m, arg)
        p == project_root(m) \o rp.rel IN
    IF ~rp.some
    THEN LET o == u_listdir(disk, Resolve(cwd, arg)) IN [Outcome EXCEPT !.st = o.st, !.names = o.names]
    ELSE IF passthrough_path(rp.rel)
    THEN LET o == u_listdir(disk, p) IN [Outcome EXCEPT !.st = o.st, !.names = o.names]
    ELSE LET loc == u_listdir(disk, p) IN
         IF loc.st \notin {"ok", "ENOENT"}
         THEN [Outcome EXCEPT !.st = loc.st]
         ELSE LET dircontents == loc.names \cup (IF rp.rel = <<>> THEN {SPECIAL_FILE[1]} ELSE {})
                  r == api_listdir(cache, m, FALSE, rp.rel) IN
              IF r.resp.ok
              THEN [Outcome EXCEPT
                      !.names = dircontents \cup { f.name : f \in r.resp.entries },
                      !.reqs = r.reqs,
                      !.cache = r.cache,
                      !.dirtree = [dirtree EXCEPT ![m] =
                          (arg :> { f.name : f \in { g \in r.resp.entries : g.type = "dir" } }) @@ @]]
              ELSE IF loc.st = "ENOENT"
                   THEN [Outcome EXCEPT !.st = "ENOENT", !.reqs = r.reqs, !.cache = r.cache]
                   ELSE [Outcome EXCEPT !.names = dircontents, !.reqs = r.reqs, !.cache = r.cache]

-----------------------------------------------------------------------------
(* DagsHubFilesystem.scandir (a generator function behind wrapreturn).       *)

\* scandir, as iterated to its end: names are the names of the entries it yields, st the
\* error the iteration raises
scandir(m, arg) ==
    LET rp == relative_path(m, arg)
        p == project_root(m) \o rp.rel IN
    IF ~rp.some
    \* return self.__scandir(path) inside a generator: the call is made, nothing is yielded
    THEN LET o == u_scandir(disk, Resolve(cwd, arg)) IN [Outcome EXCEPT !.st = o.st]
    ELSE IF passthrough_path(rp.rel)
    THEN LET o == u_scandir(disk, p) IN [Outcome EXCEPT !.st = o.st]
    ELSE LET loc == u_scandir(disk, p) IN
         IF loc.st \notin {"ok", "ENOENT"}
         THEN [Outcome EXCEPT !.st = loc.st]
         ELSE LET local_filenames == loc.names
                  special == IF loc.st = "ok" /\ rp.rel = <<>> THEN {SPECIAL_FILE[1]} ELSE {}
                  r == api_listdir(cache, m, FALSE, rp.rel) IN
              [Outcome EXCEPT
                 !.names = local_filenames \cup special
                           \cup (IF r.resp.ok THEN { f.name : f \in r.resp.entries } ELSE {}),
                 !.reqs = r.reqs,
                 !.cache = r.cache]

-----------------------------------------------------------------------------
(* dagshub_stat_result: the synthetic stat result and its attributes.        *)

\* dagshub_stat_result(fs, path, is_directory=False) as stat returns it: no _true_stat yet
StatResult(m, arg) == [fs |-> m, path |-> arg, true_stat |-> <<>>]

\* the os.stat_result of a file on the local disk: its size is the length of its bytes, its
\* times are the time of the write (after the epoch)
real_stat(d, p) ==
    [st_mode |-> "0o100644", st_size |-> Len(d[p]), st_uid |-> "getuid", st_gid |-> "getgid",
     st_atime |-> 1, st_mtime |-> 1, st_ctime |-> 1, st_ino |-> "ino"]

\* the attributes a program reads: the ones __getattr__ answers itself, and one more
StFields == {"st_mode", "st_size", "st_uid", "st_gid", "st_atime", "st_mtime", "st_ctime", "st_ino"}

\* __getattr__ that answers no attribute itself: every st_ name opens the file
getattr_fetching(s, name) ==
    LET o == open(s.fs, s.path, "r")
        rp == relative_path(s.fs, s.path)
        p == project_root(s.fs) \o rp.rel IN
    IF s.true_stat # <<>>
    THEN [out |-> Outcome, value |-> <<s.true_stat[1][name]>>, obj |-> s]
    ELSE IF o.st # "ok" THEN [out |-> o, value |-> <<>>, obj |-> s]
    ELSE IF ~rp.some \/ u_stat(o.disk, p).st # "ok"
    THEN [out |-> [o EXCEPT !.st = IF rp.some THEN u_stat(o.disk, p).st ELSE "TypeError"],
          value |-> <<>>, obj |-> s]
    ELSE [out |-> o, value |-> <<real_stat(o.disk, p)[name]>>,
          obj |-> [s EXCEPT !.true_stat = <<real_stat(o.disk, p)>>]]

\* dagshub_stat_result.__getattr__(name) for an st_ name: _true_stat if it is set, the fixed
\* answers, else self._fs.open(self._path) and the real stat, kept as _true_stat
getattr(s, name) ==
    LET o == open(s.fs, s.path, "r")
        rp == relative_path(s.fs, s.path)
        p == project_root(s.fs) \o rp.rel IN
    IF s.true_stat # <<>>
    THEN [out |-> Outcome, value |-> <<s.true_stat[1][name]>>, obj |-> s]
    ELSE IF name \in DOMAIN dagshub_stat_result
    THEN [out |-> Outcome, value |-> <<dagshub_stat_result[name]>>, obj |-> s]
    ELSE IF o.st # "ok" THEN [out |-> o, value |-> <<>>, obj |-> s]
    ELSE IF ~rp.some \/ u_stat(o.disk, p).st # "ok"
    THEN [out |-> [o EXCEPT !.st = IF rp.some THEN u_stat(o.disk, p).st ELSE "TypeError"],
          value |-> <<>>, obj |-> s]
    ELSE [out |-> o, value |-> <<real_stat(o.disk, p)[name]>>,
          obj |-> [s EXCEPT !.true_stat = <<real_stat(o.disk, p)>>]]

-----------------------------------------------------------------------------
(* DagsHubFilesystem.chdir                                                 *)

chdir(m, arg) ==
    LET rp == relative_path(m, arg)
        abspath == project_root(m) \o rp.rel IN
    IF ~rp.some
    THEN LET e == u_chdir(disk, Resolve(cwd, arg)) IN
         [Outcome EXCEPT !.st = e, !.cwd = IF e = "ok" THEN Resolve(cwd, arg) ELSE cwd]
    ELSE LET e == u_chdir(disk, abspath) IN
         IF e # "ENOENT"
         THEN [Outcome EXCEPT !.st = e, !.cwd = IF e = "ok" THEN abspath ELSE cwd]
         ELSE LET r == api_listdir(cache, m, FALSE, rp.rel) IN
              IF ~r.resp.ok
              THEN [Outcome EXCEPT !.st = "ENOENT", !.reqs = r.reqs, !.cache = r.cache]
              ELSE LET mk == mkdirs(disk, m, rp.rel)
                       e2 == u_chdir(mk.disk, abspath) IN
                   IF mk.st # "ok"
                   THEN [Outcome EXCEPT !.st = mk.st, !.reqs = r.reqs, !.cache = r.cache, !.disk = mk.disk]
                   ELSE [Outcome EXCEPT !.st = e2, !.reqs = r.reqs, !.cache = r.cache, !.disk = mk.disk,
                                        !.cwd = IF e2 = "ok" THEN abspath ELSE cwd]

-----------------------------------------------------------------------------
(* install_hooks / uninstall_hooks and the ambient primitives.             *)

Original == 0

OpenSlots == {"io_open", "builtins_open", "pathlib_open"}

StatSlots == {"os_stat", "pathlib_stat"}

ListdirSlots == {"os_listdir", "pathlib_listdir"}

ScandirSlots == {"os_scandir", "pathlib_scandir"}

ChdirSlots == {"os_chdir"}

Slots == OpenSlots \cup StatSlots \cup ListdirSlots \cup ScandirSlots \cup ChdirSlots

\* install_hooks that saves the ambient primitives on every call
install_hooks_resaving(m) ==
    [st |-> "ok",
     unpatched |-> [set |-> TRUE, open |-> ambient.io_open, stat |-> ambient.os_stat,
                    listdir |-> ambient.os_listdir, scandir |-> ambient.os_scandir,
                    chdir |-> ambient.os_chdir],
     ambient |-> [s \in Slots |-> m],
     hooked_instance |-> m]

\* DagsHubFilesystem.install_hooks: what it returns and leaves in the class and the ambient slots
install_hooks(m) ==
    [st |-> "ok",
     unpatched |-> IF unpatched.set THEN unpatched
                   ELSE [set |-> TRUE, open |-> ambient.io_open, stat |-> ambient.os_stat,
                         listdir |-> ambient.os_listdir, scandir |-> ambient.os_scandir,
                         chdir |-> ambient.os_chdir],
     ambient |-> [s \in Slots |-> m],
     hooked_instance |-> m]

\* DagsHubFilesystem.uninstall_hooks (a classmethod; fs.uninstall_hooks() is the same call)
uninstall_hooks ==
    [st |-> "ok",
     ambient |-> IF unpatched.set
                 THEN [s \in Slots |->
                         CASE s \in {"io_open", "builtins_open"} -> unpatched.open
                           [] s \in StatSlots -> unpatched.stat
                           [] s \in ListdirSlots -> unpatched.listdir
                           [] s \in ScandirSlots -> unpatched.scandir
                           [] s \in ChdirSlots -> unpatched.chdir
                           [] OTHER -> ambient[s]]
                 ELSE ambient,
     hooked_instance |-> hooked_instance]

\* the module's uninstall_hooks() called as uninstall_hooks(fs=m) or uninstall_hooks(path=root):
\* the function takes no parameter, the call raises before its body runs
uninstall_hooks_by(how, m) ==
    [st |-> "TypeError", ambient |-> ambient, hooked_instance |-> hooked_instance]

\* the (root, filesystem) pairs the class records as hooked
mounted(hi) == IF hi = 0 THEN {} ELSE {<<project_root(hi), hi>>}

get_mounted_filesystems == mounted(hooked_instance)

\* a call of an ambient primitive whose slot holds h: the original, or the method of instance h
call_open(h, arg, mode) ==
    IF h = Original
    THEN LET r == orig_open(disk, Resolve(cwd, arg), mode) IN
         [Outcome EXCEPT !.st = r.st, !.data = r.data, !.disk = r.disk]
    ELSE open(h, arg, mode)

call_stat(h, arg) ==
    IF h = Original
    THEN LET r == orig_stat(disk, Resolve(cwd, arg)) IN [Outcome EXCEPT !.st = r.st, !.kind = r.kind]
    ELSE stat(h, arg)

call_listdir(h, arg) ==
    IF h = Original
    THEN LET r == orig_listdir(disk, Resolve(cwd, arg)) IN [Outcome EXCEPT !.st = r.st, !.names = r.names]
    ELSE listdir(h, arg)

call_scandir(h, arg) ==
    IF h = Original
    THEN LET r == orig_scandir(disk, Resolve(cwd, arg)) IN [Outcome EXCEPT !.st = r.st, !.names = r.names]
    ELSE scandir(h, arg)

call_chdir(h, arg) ==
    IF h = Original
    THEN LET e == orig_chdir(disk, Resolve(cwd, arg)) IN
         [Outcome EXCEPT !.st = e, !.cwd = IF e = "ok" THEN Resolve(cwd, arg) ELSE cwd]
    ELSE chdir(h, arg)

-----------------------------------------------------------------------------
(* dagshub/auth/tokens.py: the tokens (classes of dagshub.auth.token_auth). *)

\* the hosts: config.host and one other host
DefaultHost == "d"

Hosts == {DefaultHost, "x"}

\* the latest instant of the clock
MaxNow == 2

\* the longest list of tokens a host gets by add_token
MaxTokens == 2

\* expiry: <<>> is "never", <<n>> the instant n
AppDagshubToken(text) == [token_text |-> text, token_type |-> "app-token", expiry |-> <<>>]

OAuthDagshubToken(text, exp) == [token_text |-> text, token_type |-> "bearer", expiry |-> <<exp>>]

EnvVarDagshubToken(text) == [token_text |-> text, token_type |-> "env-var", expiry |-> <<>>]

\* token.priority: the environment token before app tokens before OAuth tokens
priority(t) ==
    CASE t.token_type = "env-var" -> 0 - 1
      [] t.token_type = "app-token" -> 0
      [] OTHER -> 1

\* token.is_expired at the instant t0
is_expired_at(t, t0) == t.expiry # <<>> /\ t.expiry[1] < t0

is_expired(t) == is_expired_at(t, now)

\* token.serialize(): the entry of the cache file
serialize(t) ==
    [token_type |-> t.token_type, token_text |-> t.token_text,
     expiry |-> IF t.expiry = <<>> THEN "never" ELSE ToString(t.expiry[1])]

\* <class of entry.token_type>.deserialize(entry)
deserialize(e) ==
    [token_text |-> e.token_text, token_type |-> e.token_type,
     expiry |-> IF e.expiry = "never" THEN <<>>
                ELSE <<CHOOSE n \in 0..(MaxNow + 2) : ToString(n) = e.expiry>>]

\* the tokens of the scenarios: two app tokens, two OAuth tokens that expired before the
\* process started and one that expires while it runs
TokA == AppDagshubToken("A")

TokB == AppDagshubToken("B")

TokP == OAuthDagshubToken("P", 0)

TokQ == OAuthDagshubToken("Q", 0)

TokR == OAuthDagshubToken("R", 1)

-----------------------------------------------------------------------------
(* TokenStorage.is_valid_token and the identity endpoint.                   *)

Response(status, login) == [status |-> status, login |-> login]

\* http_request raised (no response)
RequestFailed == [status |-> 0, login |-> FALSE]

Statuses == {200, 201, 204, 302, 400, 401, 404, 499, 500, 503}

Responses == { Response(s, l) : s \in Statuses, l \in BOOLEAN }

\* assert not 4xx; if status == 200: assert "login" in body; any AssertionError gives False
is_valid_token(resp) ==
    /\ ~(400 <= resp.status /\ resp.status <= 499)
    /\ (resp.status = 200 => resp.login)

-----------------------------------------------------------------------------
(* TokenStorage: the cache file and the in-memory cache.                    *)

NoFile == [exists |-> FALSE, version |-> "", by_host |-> <<>>]

CacheFile(by_host) == [exists |-> TRUE, version |-> "1", by_host |-> by_host]

\* self.__token_cache is None
NotLoaded == [loaded |-> FALSE, by_host |-> <<>>]

\* [t.serialize() for t in tokens]
serialize_all(s) == [i \in 1..Len(s) |-> serialize(s[i])]

\* the tokens of the entries of one host
deserialize_all(s) == [i \in 1..Len(s) |-> deserialize(s[i])]

\* the token_type values of the subclasses of DagshubTokenABC (token_class_map)
TokenTypes == {"app-token", "bearer", "env-var"}

\* token_class_map[token_dict["token_type"]] raises KeyError: no such field, or no such class
RaisesKeyError(e) == "token_type" \notin DOMAIN e \/ e.token_type \notin TokenTypes

\* <class>.deserialize(entry) returns a token (else it raises TokenDeserializationError)
Deserializable(e) == "token_text" \in DOMAIN e /\ "expiry" \in DOMAIN e

\* _v1_token_list_parser: hosts with an empty list are left out; an entry whose
\* deserializer raises TokenDeserializationError is skipped, any other exception ends the
\* parse
v1_token_list_parser(by_host) ==
    LET hosts == { g \in DOMAIN by_host : Len(by_host[g]) > 0 } IN
    IF \E h \in hosts : \E i \in 1..Len(by_host[h]) : RaisesKeyError(by_host[h][i])
    THEN [st |-> "KeyError", res |-> <<>>]
    ELSE [st |-> "ok",
          res |-> [h \in hosts |-> deserialize_all(SelectSeq(by_host[h], Deserializable))]]

\* _load_cache_file with the exception it raises: no file gives {}, a version other than
\* "1" RuntimeError
load_outcome(f) ==
    IF ~f.exists THEN [st |-> "ok", res |-> <<>>]
    ELSE IF f.version # "1" THEN [st |-> "RuntimeError", res |-> <<>>]
    ELSE v1_token_list_parser(f.by_host)

\* _load_cache_file, what it returns
load_cache_file(f) == load_outcome(f).res

\* _store_cache_file: every host of the in-memory cache, each token serialized
store_cache_file(c) == CacheFile([h \in DOMAIN c |-> serialize_all(c[h])])

\* list.remove(t): drops the first element equal to t
RECURSIVE list_remove(_, _)
list_remove(s, t) ==
    IF s = <<>> THEN s
    ELSE IF Head(s) = t THEN Tail(s)
    ELSE <<Head(s)>> \o list_remove(Tail(s), t)

\* the loop of remove_expired_tokens over one host: filter() walks the list by index
\* while the body removes from the same list
RECURSIVE remove_expired_from(_, _)
remove_expired_from(tokens, i) ==
    IF i > Len(tokens) THEN tokens
    ELSE IF is_expired(tokens[i])
    THEN remove_expired_from(list_remove(tokens, tokens[i]), i + 1)
    ELSE remove_expired_from(tokens, i + 1)

remove_expired_tokens(c) == [h \in DOMAIN c |-> remove_expired_from(c[h], 1)]

\* the _token_cache property: loads the file and removes the expired tokens on first use
\* (storing the file if any token was removed)
token_cache_of(mem, f) ==
    IF mem.loaded THEN [by_host |-> mem.by_host, file |-> f]
    ELSE LET c0 == load_cache_file(f)
             c1 == remove_expired_tokens(c0) IN
         [by_host |-> c1, file |-> IF c1 # c0 THEN store_cache_file(c1) ELSE f]

\* self._token_cache.get(host, [])
tokens_of(host) ==
    LET tc == token_cache_of(token_cache, token_file) IN
    IF host \in DOMAIN tc.by_host THEN tc.by_host[host] ELSE <<>>

\* the text of the k-th token the OAuth flow can issue
FlowText(k) == "N" \o ToString(k)

\* oauth.oauth_flow(host): a new token (its text is the text of no token stored for the
\* host) that outlives the instant it is issued at
oauth_flow(host) ==
    LET l == tokens_of(host)
        used(k) == \E i \in 1..Len(l) : l[i].token_text = FlowText(k)
        k == CHOOSE n \in 0..Len(l) : ~used(n) /\ \A j \in 0..(n - 1) : used(j) IN
    OAuthDagshubToken(FlowText(k), now + 1)

-----------------------------------------------------------------------------
(* TokenStorage.get_token_object, add_token and the module functions.       *)

\* the identity endpoint as one call sees it: the response per token text (a text that is
\* not named gets 200 with a login)
reply(srv, text) == IF text \in DOMAIN srv THEN srv[text] ELSE Response(200, TRUE)

\* the result of a call that changes nothing
TokOutcome ==
    [st |-> "ok", ret |-> <<>>, mem |-> token_cache, file |-> token_file,
     good |-> known_good, flows |-> 0, asked |-> {}, stored |-> FALSE]

\* sorted(tokens, key=priority): stable
RECURSIVE sorted_by_priority(_)
sorted_by_priority(s) ==
    IF s = <<>> THEN s
    ELSE LET rest == sorted_by_priority(SubSeq(s, 1, Len(s) - 1))
             t == s[Len(s)] IN
         SelectSeq(rest, LAMBDA u : priority(u) <= priority(t)) \o <<t>>
         \o SelectSeq(rest, LAMBDA u : priority(u) > priority(t))

\* the state of the search loop
Search(tokens, good) ==
    [tokens |-> tokens, good |-> good, good_token |-> <<>>, had_changes |-> FALSE,
     asked |-> {}, st |-> "ok"]

\* remove_token(t) of get_token_object
remove_token(s, t) ==
    [s EXCEPT !.tokens = list_remove(@, t), !.good = @ \ {t}, !.had_changes = TRUE]

\* the for loop of get_token_object without the token.is_expired branch
RECURSIVE search_unexpired(_, _, _)
search_unexpired(queue, s, srv) ==
    IF queue = <<>> THEN s
    ELSE LET t == Head(queue)
             r == reply(srv, t.token_text)
             a == [s EXCEPT !.asked = @ \cup {t.token_text}] IN
         IF t \in s.good THEN [s EXCEPT !.good_token = <<t>>]
         ELSE IF r = RequestFailed THEN [a EXCEPT !.st = "RequestError"]
         ELSE IF is_valid_token(r) THEN [a EXCEPT !.good_token = <<t>>, !.good = @ \cup {t}]
         ELSE search_unexpired(Tail(queue), remove_token(a, t), srv)

\* the for loop of get_token_object without the test `token in good_token_set`
RECURSIVE search_revalidating(_, _, _)
search_revalidating(queue, s, srv) ==
    IF queue = <<>> THEN s
    ELSE LET t == Head(queue)
             r == reply(srv, t.token_text)
             a == [s EXCEPT !.asked = @ \cup {t.token_text}] IN
         IF is_expired(t) THEN search_revalidating(Tail(queue), remove_token(s, t), srv)
         ELSE IF r = RequestFailed THEN [a EXCEPT !.st = "RequestError"]
         ELSE IF is_valid_token(r) THEN [a EXCEPT !.good_token = <<t>>, !.good = @ \cup {t}]
         ELSE search_revalidating(Tail(queue), remove_token(a, t), srv)

\* the for loop of get_token_object over token_queue
RECURSIVE search(_, _, _)
search(queue, s, srv) ==
    IF queue = <<>> THEN s
    ELSE LET t == Head(queue)
             r == reply(srv, t.token_text)
             a == [s EXCEPT !.asked = @ \cup {t.token_text}] IN
         IF is_expired(t) THEN search(Tail(queue), remove_token(s, t), srv)
         ELSE IF t \in s.good THEN [s EXCEPT !.good_token = <<t>>]
         ELSE IF r = RequestFailed THEN [a EXCEPT !.st = "RequestError"]
         ELSE IF is_valid_token(r) THEN [a EXCEPT !.good_token = <<t>>, !.good = @ \cup {t}]
         ELSE search(Tail(queue), remove_token(a, t), srv)

\* token_queue in the order of the list
token_queue_unsorted(tokens) == tokens

\* token_queue = list(sorted(tokens, key=lambda t: t.priority))
token_queue(tokens) == sorted_by_priority(tokens)

\* the end of get_token_object that starts the OAuth flow and keeps its token in memory only
no_good_token_unsaved(o, host, tokens, good, fail_if_no_token, flow_ok) ==
    IF fail_if_no_token THEN [o EXCEPT !.st = "RuntimeError"]
    ELSE IF ~flow_ok THEN [o EXCEPT !.st = "OAuthError", !.flows = 1]
    ELSE [o EXCEPT !.ret = <<oauth_flow(host)>>, !.flows = 1,
                   !.good = (host :> (good \cup {oauth_flow(host)})) @@ @,
                   !.mem = [loaded |-> TRUE,
                            by_host |-> (host :> Append(tokens, oauth_flow(host))) @@ o.mem.by_host]]

\* the end of get_token_object when the search found no good token
no_good_token(o, host, tokens, good, fail_if_no_token, flow_ok) ==
    IF fail_if_no_token THEN [o EXCEPT !.st = "RuntimeError"]
    ELSE IF ~flow_ok THEN [o EXCEPT !.st = "OAuthError", !.flows = 1]
    ELSE LET c == (host :> Append(tokens, oauth_flow(host))) @@ o.mem.by_host IN
         [o EXCEPT !.ret = <<oauth_flow(host)>>, !.flows = 1,
                   !.good = (host :> (good \cup {oauth_flow(host)})) @@ @,
                   !.mem = [loaded |-> TRUE, by_host |-> c],
                   !.file = store_cache_file(c), !.stored = TRUE]

\* get_token_object that looks into the cache before the environment token
env_token_after_cache(host) ==
    LET tc == token_cache_of(token_cache, token_file) IN
    [TokOutcome EXCEPT !.ret = <<EnvVarDagshubToken(config_token[1])>>,
                       !.mem = [loaded |-> TRUE, by_host |-> tc.by_host],
                       !.file = tc.file, !.stored = tc.file # token_file]

\* lines 91-92: the environment token, synthesized and returned at once
env_token(host) == [TokOutcome EXCEPT !.ret = <<EnvVarDagshubToken(config_token[1])>>]

get_token_object(host, fail_if_no_token, srv, flow_ok) ==
    IF host = DefaultHost /\ config_token # <<>> THEN env_token(host)
    ELSE
    LET tc == token_cache_of(token_cache, token_file)
        inCache == host \in DOMAIN tc.by_host
        tokens == IF inCache THEN tc.by_host[host] ELSE <<>>
        s == search(token_queue(tokens), Search(tokens, known_good[host]), srv)
        \* tokens and good_token_set are changed in place
        c1 == IF inCache THEN [tc.by_host EXCEPT ![host] = s.tokens] ELSE tc.by_host
        g1 == [known_good EXCEPT ![host] = s.good]
        o1 == [TokOutcome EXCEPT !.mem = [loaded |-> TRUE, by_host |-> c1], !.file = tc.file,
                                 !.good = g1, !.asked = s.asked,
                                 !.stored = tc.file # token_file]
        o2 == IF s.had_changes
              THEN [o1 EXCEPT !.file = store_cache_file(c1), !.stored = TRUE]
              ELSE o1 IN
    IF s.st # "ok" THEN [o1 EXCEPT !.st = s.st]
    ELSE IF s.good_token # <<>> THEN [o2 EXCEPT !.ret = s.good_token]
    ELSE no_good_token(o2, host, s.tokens, s.good, fail_if_no_token, flow_ok)

\* add_token that appends and stores before it validates
add_token_unvalidated(token, host, skip_validation, srv) ==
    LET tc == token_cache_of(token_cache, token_file)
        c == (host :> Append(IF host \in DOMAIN tc.by_host THEN tc.by_host[host] ELSE <<>>, token))
             @@ tc.by_host
        o == [TokOutcome EXCEPT !.mem = [loaded |-> TRUE, by_host |-> c],
                                !.file = store_cache_file(c), !.stored = TRUE] IN
    IF skip_validation THEN o
    ELSE LET r == reply(srv, token.token_text) IN
         IF r = RequestFailed THEN [o EXCEPT !.st = "RequestError", !.asked = {token.token_text}]
         ELSE IF ~is_valid_token(r) THEN [o EXCEPT !.st = "InvalidTokenError", !.asked = {token.token_text}]
         ELSE [o EXCEPT !.asked = {token.token_text}]

\* TokenStorage.add_token
add_token(token, host, skip_validation, srv) ==
    LET r == reply(srv, token.token_text)
        asked == IF skip_validation THEN {} ELSE {token.token_text} IN
    IF ~skip_validation /\ r = RequestFailed
    THEN [TokOutcome EXCEPT !.st = "RequestError", !.asked = asked]
    ELSE IF ~skip_validation /\ ~is_valid_token(r)
    THEN [TokOutcome EXCEPT !.st = "InvalidTokenError", !.asked = asked]
    ELSE LET tc == token_cache_of(token_cache, token_file)
             c == (host :> Append(IF host \in DOMAIN tc.by_host THEN tc.by_host[host] ELSE <<>>,
                                  token)) @@ tc.by_host IN
         [TokOutcome EXCEPT !.mem = [loaded |-> TRUE, by_host |-> c],
                            !.file = store_cache_file(c), !.stored = TRUE, !.asked = asked]

\* add_app_token(token, host)
add_app_token(text, host, srv) == add_token(AppDagshubToken(text), host, FALSE, srv)

\* add_oauth_token(host): the flow, then add_token(skip_validation=True)
add_oauth_token(host, flow_ok) ==
    IF ~flow_ok THEN [TokOutcome EXCEPT !.st = "OAuthError", !.flows = 1]
    ELSE [add_token(oauth_flow(host), host, TRUE, <<>>) EXCEPT !.flows = 1]

-----------------------------------------------------------------------------
(* The calls a program makes.                                              *)

\* the file a/b.txt of the fixtures below the root of m
FixtureArg(m) == AbsArg(project_root(m) \o <<"a", "b.txt">>)

\* the remote-only files of the fixtures, as the tests open them
FileArgs == { AbsArg(<<"m", "a", "b.txt">>), AbsArg(<<"m", "repo2", "a", "b.txt">>) }

OpenArgs ==
    FileArgs \cup
    { AbsArg(<<"m", "zzz">>), RelArg(<<"zzz">>), RelArg(<<"a", "b.txt">>),
      AbsArg(<<"m", ".dagshub-streaming">>), AbsArg(<<"m", ".git", "config">>), AbsArg(<<"o.txt">>) }

StatArgs ==
    { AbsArg(<<"m", "zzz">>), RelArg(<<"zzz">>), RelArg(<<"a">>), AbsArg(<<"m", "a", "b.txt">>),
      AbsArg(<<"m", ".dagshub-streaming">>), AbsArg(<<"m", ".git", "config">>), AbsArg(<<"o.txt">>) }

ListdirArgs == { RelArg(<<>>), AbsArg(<<"m">>), AbsArg(<<"m", "repo2">>) }

ChdirArgs == { AbsArg(<<"m">>), AbsArg(<<"m", "repo2">>), AbsArg(<<"m", "a">>) }

\* the directories a program changes into: remote directories, a path no repository holds,
\* a remote file
MirrorArgs ==
    { AbsArg(<<"m", "a">>), AbsArg(<<"m", "repo2", "a">>), AbsArg(<<"m", "zzz">>),
      AbsArg(<<"m", "a", "b.txt">>) }

\* the calls that change the state of the disk, the caches or the working directory
StepListdirArgs == { RelArg(<<>>) }

StepChdirArgs == { AbsArg(<<"m">>), AbsArg(<<"m", "repo2">>), AbsArg(<<"m", "a">>) }

Apply(o) ==
    /\ disk' = o.disk
    /\ cache' = o.cache
    /\ dirtree' = o.dirtree
    /\ cwd' = o.cwd
    /\ UNCHANGED <<ambient, unpatched, hooked_instance, active, remote_up>>
    /\ UNCHANGED tokvars
    /\ UNCHANGED auxvars

Open(h, arg, mode) == Apply(call_open(h, arg, mode))

Stat(h, arg) == Apply(call_stat(h, arg))

Listdir(h, arg) == Apply(call_listdir(h, arg))

Chdir(h, arg) == Apply(call_chdir(h, arg))

Scandir(h, arg) == Apply(call_scandir(h, arg))

\* fs.install_hooks()
Install(m) ==
    LET i == install_hooks(m) IN
    /\ unpatched' = i.unpatched
    /\ ambient' = i.ambient
    /\ hooked_instance' = i.hooked_instance
    /\ active' = IF i.st = "ok" THEN active \cup {m} ELSE active
    /\ UNCHANGED <<disk, cwd, cache, dirtree, remote_up>>
    /\ UNCHANGED tokvars
    /\ UNCHANGED auxvars

\* uninstall_hooks() of the module or the class (who = 0), or fs.uninstall_hooks() (who = m)
Uninstall(who) ==
    LET u == uninstall_hooks IN
    /\ ambient' = u.ambient
    /\ hooked_instance' = u.hooked_instance
    /\ active' = IF who = 0 THEN {} ELSE active \ {who}
    /\ UNCHANGED <<disk, cwd, cache, dirtree, unpatched, remote_up>>
    /\ UNCHANGED tokvars
    /\ UNCHANGED auxvars

\* uninstall_hooks(fs=m), uninstall_hooks(path=m.project_root)
UninstallBy(how, m) ==
    LET u == uninstall_hooks_by(how, m) IN
    /\ ambient' = u.ambient
    /\ hooked_instance' = u.hooked_instance
    /\ active' = IF u.st = "ok" THEN active \ {m} ELSE active
    /\ UNCHANGED <<disk, cwd, cache, dirtree, unpatched, remote_up>>
    /\ UNCHANGED tokvars
    /\ UNCHANGED auxvars

-----------------------------------------------------------------------------

\* the state after the three instances were constructed: __init__ lists '' through the cache
\* (the response was ok, or __init__ had raised); from then on the remote answers or fails
FsInit ==
    /\ remote_up \in BOOLEAN
    /\ disk = [p \in AbsPaths |->
                 CASE p \in {<<>>, <<"m">>, <<"m", ".git">>, <<"m", "repo2">>} -> "dir"
                   [] p = <<"o.txt">> -> "outside"
                   [] p = <<"m", ".git", "config">> -> "gitconfig"
                   [] OTHER -> "none"]
    /\ cwd = <<>>
    /\ cache = (CacheKey(TRUE, <<>>) :> Listing(1, <<>>))
    /\ dirtree = [m \in Mounts |-> <<>>]
    /\ ambient = [s \in Slots |-> Original]
    /\ unpatched = [set |-> FALSE, open |-> 0, stat |-> 0, listdir |-> 0, scandir |-> 0, chdir |-> 0]
    /\ hooked_instance = 0
    /\ active = {}

\* no use of the credential store: no cache file, nothing loaded
TokIdle ==
    /\ token_file = NoFile
    /\ token_cache = NotLoaded
    /\ known_good = [h \in Hosts |-> {}]
    /\ now = 1
    /\ config_token = <<>>

\* no thread inside the credential store
LockIdle ==
    /\ adder = [pc |-> "idle", token |-> <<>>, st |-> "ok"]
    /\ getter = [pc |-> "idle", aliased |-> FALSE, tokens |-> <<>>, queue |-> <<>>,
                 good_token |-> <<>>, had_changes |-> FALSE, fail |-> FALSE, st |-> "ok"]
    /\ lock = 0
    /\ issued = 0
    /\ inserted = {}

\* no thread inside open
OpenIdle == opener = <<>>

\* no synthetic stat result held
StatIdle == stat_objs = {}

\* the first instance resolved its revision when its constructor listed the root; the
\* constructors of the others were served from the listing cache and resolved nothing
RevIdle ==
    /\ branch_head = 1
    /\ revision_cache = [m \in Mounts |-> IF m = 1 THEN <<1>> ELSE <<>>]
    /\ sent = {}

\* the threads that call the module functions of the credential store
Callers == {1, 2}

\* no credential store constructed yet, no thread asking for one
StoreIdle ==
    /\ token_storage = 0
    /\ storage_locks = <<>>
    /\ caller = [t \in Callers |-> [pc |-> "idle", made |-> 0, storage |-> 0, calls |-> 0]]

ExtraIdle == RevIdle /\ StoreIdle

Init == FsInit /\ TokIdle /\ LockIdle /\ OpenIdle /\ StatIdle /\ ExtraIdle

Next ==
    \/ \E m \in Mounts : Install(m)
    \/ \E who \in Mounts \cup {0} : Uninstall(who)
    \/ \E how \in {"fs", "path"}, m \in Mounts : UninstallBy(how, m)
    \/ \E s \in {"builtins_open", "pathlib_open"}, a \in FileArgs : Open(ambient[s], a, "r")
    \/ \E m \in Mounts, a \in FileArgs : Open(m, a, "r")
    \/ \E a \in StatArgs : Stat(ambient.os_stat, a)
    \/ \E a \in StepListdirArgs : Listdir(ambient.os_listdir, a)
    \/ \E a \in StepChdirArgs : Chdir(ambient.os_chdir, a)

Spec == Init /\ [][Next]_vars

-----------------------------------------------------------------------------
(* The credential store: the calls a program makes.                         *)

\* the responses of the identity endpoint the calls meet
StepReplies == {Response(200, TRUE), Response(401, FALSE), RequestFailed}

\* the endpoint as a call sees it: one token text answered by a reply of StepReplies,
\* every other text by 200 with a login
SrvChoices == { (x :> r) : x \in {"A", "B", "R", FlowText(0)}, r \in StepReplies }

\* the endpoint as a call for host can see it: every stored token of the host that is not
\* expired (the others are never sent) answered by any reply
SrvFor(host) ==
    [{ tokens_of(host)[i].token_text :
         i \in { j \in 1..Len(tokens_of(host)) : ~is_expired(tokens_of(host)[j]) } } -> StepReplies]

\* the lists a host's entry of the cache file starts with: tokens in any arrangement
InitTokens == {TokA, TokP, TokQ, TokR}

InitLists ==
    {<<>>} \cup { <<t>> : t \in InitTokens }
    \cup { p \in { <<t, u>> : t \in InitTokens, u \in InitTokens } : p[1] # p[2] }
    \cup { <<TokP, TokQ, TokA>>, <<TokP, TokA, TokQ>>, <<TokR, TokP, TokA>>, <<TokP, TokQ, TokR>> }

TokApply(o) ==
    /\ token_cache' = o.mem
    /\ token_file' = o.file
    /\ known_good' = o.good
    /\ UNCHANGED <<now, config_token>>
    /\ UNCHANGED vars
    /\ UNCHANGED auxvars

GetTokenObject(host, fail_if_no_token, srv, flow_ok) ==
    TokApply(get_token_object(host, fail_if_no_token, srv, flow_ok))

AddAppToken(text, host, srv) ==
    /\ Len(tokens_of(host)) < MaxTokens
    /\ TokApply(add_app_token(text, host, srv))

AddOAuthToken(host, flow_ok) ==
    /\ Len(tokens_of(host)) < MaxTokens
    /\ TokApply(add_oauth_token(host, flow_ok))

\* time passes
Tick ==
    /\ now < MaxNow
    /\ now' = now + 1
    /\ UNCHANGED <<token_cache, token_file, known_good, config_token>>
    /\ UNCHANGED vars
    /\ UNCHANGED auxvars

\* the process ends and a new one starts: a new TokenStorage over the same file
Restart ==
    /\ token_cache.loaded
    /\ token_cache' = NotLoaded
    /\ known_good' = [h \in Hosts |-> {}]
    /\ UNCHANGED <<token_file, now, config_token>>
    /\ UNCHANGED vars
    /\ UNCHANGED auxvars

\* a new process over a cache file left by earlier ones; DAGSHUB_USER_TOKEN set or not
TokInit ==
    /\ FsInit
    /\ LockIdle
    /\ OpenIdle
    /\ StatIdle /\ ExtraIdle
    /\ remote_up
    /\ token_cache = NotLoaded
    /\ known_good = [h \in Hosts |-> {}]
    /\ now = 1
    /\ config_token \in {<<>>, <<"E">>}
    /\ \/ token_file = NoFile
       \/ \E l \in InitLists :
             token_file = CacheFile((DefaultHost :> serialize_all(l))
                                    @@ ("x" :> serialize_all(<<TokQ, TokP>>)))

TokNext ==
    \/ \E f \in BOOLEAN, srv \in SrvChoices, fl \in BOOLEAN : GetTokenObject(DefaultHost, f, srv, fl)
    \/ \E h \in Hosts \ {DefaultHost} : GetTokenObject(h, TRUE, <<>>, TRUE)
    \/ \E srv \in SrvChoices : AddAppToken("B", DefaultHost, srv)
    \/ \E fl \in BOOLEAN : AddOAuthToken(DefaultHost, fl)
    \/ Tick
    \/ Restart

TokSpec == TokInit /\ [][TokNext]_allvars

-----------------------------------------------------------------------------
(* The credential store under two threads: one in add_token, one in         *)
(* get_token_object, on the same host. A step is a statement (or the        *)
(* statements up to the next blocking call); threads interleave freely.     *)

\* the host both threads name
LockHost == DefaultHost

\* the k-th token the OAuth flow issues in this process
oauth_flow_nth(k) == OAuthDagshubToken(FlowText(k), now + 1)

\* self._token_cache as a statement finds it (the property loads the file on first use)
cache_now == token_cache_of(token_cache, token_file)

\* the list `tokens` of get_token_object: the list object the cache holds for the host
\* (aliased), or the new list [] that _token_cache.get(host, []) returned
getter_tokens == IF getter.aliased THEN cache_now.by_host[LockHost] ELSE getter.tokens

\* what a step of a thread of the credential store leaves alone
LockFrame ==
    /\ UNCHANGED <<now, config_token>>
    /\ UNCHANGED vars
    /\ UNCHANGED <<openvars, statvars, extravars>>

\* add_app_token(text, host): AppDagshubToken(token), add_token entered (no lock is taken)
AddAppStart(text) ==
    /\ adder.pc = "idle"
    /\ adder' = [adder EXCEPT !.pc = "validate", !.token = <<AppDagshubToken(text)>>]
    /\ UNCHANGED <<getter, lock, issued, inserted, token_cache, token_file, known_good>>
    /\ LockFrame

\* add_oauth_token(host): the flow, then add_token(skip_validation=True) entered
AddOAuthStart(flow_ok) ==
    /\ adder.pc = "idle"
    /\ adder' = IF flow_ok
                THEN [adder EXCEPT !.pc = "ensure", !.token = <<oauth_flow_nth(issued)>>]
                ELSE [adder EXCEPT !.pc = "done", !.st = "OAuthError"]
    /\ issued' = IF flow_ok THEN issued + 1 ELSE issued
    /\ UNCHANGED <<getter, lock, inserted, token_cache, token_file, known_good>>
    /\ LockFrame

\* add_token, the validation: is_valid_token(token.token_text, host) answered by r
AddValidate(r) ==
    /\ adder.pc = "validate"
    /\ adder' = IF r = RequestFailed THEN [adder EXCEPT !.pc = "done", !.st = "RequestError"]
                ELSE IF ~is_valid_token(r) THEN [adder EXCEPT !.pc = "done", !.st = "InvalidTokenError"]
                ELSE [adder EXCEPT !.pc = "ensure"]
    /\ UNCHANGED <<getter, lock, issued, inserted, token_cache, token_file, known_good>>
    /\ LockFrame

\* add_token: if host not in self._token_cache: self._token_cache[host] = []
AddEnsure ==
    /\ adder.pc = "ensure"
    /\ token_cache' = [loaded |-> TRUE,
                       by_host |-> IF LockHost \in DOMAIN cache_now.by_host
                                   THEN cache_now.by_host
                                   ELSE (LockHost :> <<>>) @@ cache_now.by_host]
    /\ token_file' = cache_now.file
    /\ adder' = [adder EXCEPT !.pc = "append"]
    /\ UNCHANGED <<getter, lock, issued, inserted, known_good>>
    /\ LockFrame

\* add_token: self._token_cache[host].append(token)
AddAppend ==
    /\ adder.pc = "append"
    /\ token_cache' = [token_cache EXCEPT !.by_host[LockHost] = Append(@, adder.token[1])]
    /\ inserted' = inserted \cup {adder.token[1]}
    /\ adder' = [adder EXCEPT !.pc = "store"]
    /\ UNCHANGED <<getter, lock, issued, token_file, known_good>>
    /\ LockFrame

\* add_token: self._store_cache_file()
AddStore ==
    /\ adder.pc = "store"
    /\ token_file' = store_cache_file(token_cache.by_host)
    /\ adder' = [adder EXCEPT !.pc = "done"]
    /\ UNCHANGED <<getter, lock, issued, inserted, token_cache, known_good>>
    /\ LockFrame

\* get_token_object: the environment token, or with self._token_access_lock
GetStart(fail_if_no_token) ==
    /\ getter.pc = "idle"
    /\ IF LockHost = DefaultHost /\ config_token # <<>>
       THEN /\ getter' = [getter EXCEPT !.pc = "done",
                                        !.good_token = <<EnvVarDagshubToken(config_token[1])>>]
            /\ lock' = lock
       ELSE /\ lock = 0
            /\ lock' = "getter"
            /\ getter' = [getter EXCEPT !.pc = "read", !.fail = fail_if_no_token]
    /\ UNCHANGED <<adder, issued, inserted, token_cache, token_file, known_good>>
    /\ LockFrame

\* get_token_object: tokens = self._token_cache.get(host, []) and token_queue
GetRead ==
    /\ getter.pc = "read"
    /\ token_cache' = [loaded |-> TRUE, by_host |-> cache_now.by_host]
    /\ token_file' = cache_now.file
    /\ getter' = [getter EXCEPT !.pc = IF tokens_of(LockHost) = <<>> THEN "save" ELSE "loop",
                                !.aliased = LockHost \in DOMAIN cache_now.by_host,
                                !.tokens = <<>>,
                                !.queue = token_queue(tokens_of(LockHost))]
    /\ UNCHANGED <<adder, lock, issued, inserted, known_good>>
    /\ LockFrame

\* remove_token(t) by the getter: tokens.remove(t) on the list it holds, good_token_set
\* without t, had_changes
getter_remove(t) ==
    [getter |-> [getter EXCEPT !.tokens = IF getter.aliased THEN @ ELSE list_remove(@, t),
                               !.had_changes = TRUE],
     by_host |-> IF getter.aliased
                 THEN [token_cache.by_host EXCEPT ![LockHost] = list_remove(@, t)]
                 ELSE token_cache.by_host,
     good |-> [known_good EXCEPT ![LockHost] = @ \ {t}],
     lock |-> lock,
     gone |-> {t}]

\* one pass of the for loop over token_queue, the validation request answered by r
loop_step(r) ==
    LET t == Head(getter.queue)
        same == [getter |-> getter, by_host |-> token_cache.by_host, good |-> known_good,
                 lock |-> lock, gone |-> {}]
        found == [same EXCEPT !.getter.good_token = <<t>>, !.getter.pc = "save"]
        next(x) == [x EXCEPT !.getter.queue = Tail(getter.queue),
                             !.getter.pc = IF Tail(getter.queue) = <<>> THEN "save" ELSE "loop"] IN
    IF is_expired(t) THEN next(getter_remove(t))
    ELSE IF t \in known_good[LockHost] THEN found
    ELSE IF r = RequestFailed
    THEN [same EXCEPT !.getter.pc = "done", !.getter.st = "RequestError", !.lock = 0]
    ELSE IF is_valid_token(r) THEN [found EXCEPT !.good[LockHost] = @ \cup {t}]
    ELSE next(getter_remove(t))

GetLoop(r) ==
    /\ getter.pc = "loop"
    /\ getter' = loop_step(r).getter
    /\ token_cache' = [token_cache EXCEPT !.by_host = loop_step(r).by_host]
    /\ known_good' = loop_step(r).good
    /\ lock' = loop_step(r).lock
    /\ inserted' = inserted \ loop_step(r).gone
    /\ UNCHANGED <<adder, issued, token_file>>
    /\ LockFrame

\* get_token_object after the loop: the save of the cache if had_changes, then the return of
\* the good token, or the RuntimeError, or on to the OAuth flow
GetSave ==
    /\ getter.pc = "save"
    /\ IF getter.had_changes
       THEN /\ token_cache' = [token_cache EXCEPT
                                 !.by_host = (LockHost :> getter_tokens) @@ token_cache.by_host]
            /\ token_file' = store_cache_file((LockHost :> getter_tokens) @@ token_cache.by_host)
       ELSE UNCHANGED <<token_cache, token_file>>
    /\ getter' = [getter EXCEPT
                    !.aliased = @ \/ getter.had_changes,
                    !.pc = IF getter.good_token = <<>> /\ ~getter.fail THEN "flow" ELSE "done",
                    !.st = IF getter.good_token = <<>> /\ getter.fail THEN "RuntimeError" ELSE @]
    /\ lock' = IF getter.good_token = <<>> /\ ~getter.fail THEN lock ELSE 0
    /\ UNCHANGED <<adder, issued, inserted, known_good>>
    /\ LockFrame

\* get_token_object: good_token = oauth.oauth_flow(host)
GetFlow(flow_ok) ==
    /\ getter.pc = "flow"
    /\ getter' = IF flow_ok
                 THEN [getter EXCEPT !.pc = "append", !.good_token = <<oauth_flow_nth(issued)>>]
                 ELSE [getter EXCEPT !.pc = "done", !.st = "OAuthError"]
    /\ issued' = IF flow_ok THEN issued + 1 ELSE issued
    /\ lock' = IF flow_ok THEN lock ELSE 0
    /\ UNCHANGED <<adder, inserted, token_cache, token_file, known_good>>
    /\ LockFrame

\* get_token_object: tokens.append(good_token); good_token_set.add(good_token)
GetAppend ==
    /\ getter.pc = "append"
    /\ IF getter.aliased
       THEN /\ token_cache' = [token_cache EXCEPT
                                 !.by_host[LockHost] = Append(@, getter.good_token[1])]
            /\ getter' = [getter EXCEPT !.pc = "assign"]
       ELSE /\ token_cache' = token_cache
            /\ getter' = [getter EXCEPT !.pc = "assign",
                                        !.tokens = Append(@, getter.good_token[1])]
    /\ known_good' = [known_good EXCEPT ![LockHost] = @ \cup {getter.good_token[1]}]
    /\ inserted' = inserted \cup {getter.good_token[1]}
    /\ UNCHANGED <<adder, lock, issued, token_file>>
    /\ LockFrame

\* get_token_object: self._token_cache[host] = tokens
GetAssign ==
    /\ getter.pc = "assign"
    /\ token_cache' = [token_cache EXCEPT
                         !.by_host = (LockHost :> getter_tokens) @@ token_cache.by_host]
    /\ getter' = [getter EXCEPT !.pc = "store", !.aliased = TRUE]
    /\ UNCHANGED <<adder, lock, issued, inserted, token_file, known_good>>
    /\ LockFrame

\* get_token_object: self._store_cache_file(), the lock released, return good_token
GetStore ==
    /\ getter.pc = "store"
    /\ token_file' = store_cache_file(token_cache.by_host)
    /\ getter' = [getter EXCEPT !.pc = "done"]
    /\ lock' = 0
    /\ UNCHANGED <<adder, issued, inserted, token_cache, known_good>>
    /\ LockFrame

\* the lists the host's entry of the cache file starts with
LockLists == { <<TokA>>, <<TokP>>, <<TokR>>, <<TokR, TokA>>, <<TokP, TokA>> }

\* a new process (nothing loaded) with two threads about to call into the store
LockInit ==
    /\ FsInit
    /\ remote_up
    /\ OpenIdle
    /\ StatIdle /\ ExtraIdle
    /\ LockIdle
    /\ token_cache = NotLoaded
    /\ known_good = [h \in Hosts |-> {}]
    /\ now = 1
    /\ config_token \in {<<>>, <<"E">>}
    /\ \/ token_file = NoFile
       \/ \E l \in LockLists : token_file = CacheFile(LockHost :> serialize_all(l))

LockNext ==
    \/ AddAppStart("B")
    \/ \E fl \in BOOLEAN : AddOAuthStart(fl)
    \/ \E r \in StepReplies : AddValidate(r)
    \/ AddEnsure
    \/ AddAppend
    \/ AddStore
    \/ \E f \in BOOLEAN : GetStart(f)
    \/ GetRead
    \/ \E r \in StepReplies : GetLoop(r)
    \/ GetSave
    \/ \E fl \in BOOLEAN : GetFlow(fl)
    \/ GetAppend
    \/ GetAssign
    \/ GetStore

LockSpec == LockInit /\ [][LockNext]_<<allvars, auxvars>>

-----------------------------------------------------------------------------
(* DagsHubFilesystem.open under two threads that open the same path for      *)
(* reading through the same instance. A step is a call of a primitive or of  *)
(* the remote; threads interleave freely.                                    *)

Threads == {1, 2}

\* a thread before its call of fs.open(arg, 'r'): fs and arg, nothing done yet
OpenerIdle(m, arg) ==
    [pc |-> "idle", fs |-> m, arg |-> arg, missed |-> FALSE, content |-> "", i |-> 0,
     got |-> <<>>, st |-> "ok"]

\* relative_path of thread t's call (the working directory does not change meanwhile)
opener_rel(t) == relative_path(opener[t].fs, opener[t].arg).rel

\* the path below project_root that thread t's call opens locally
opener_path(t) == project_root(opener[t].fs) \o opener_rel(t)

\* the directory _mkdirs is at: the i-th ancestor of relative_path.parent from the top
opener_dir(t) == project_root(opener[t].fs) \o SubSeq(Parent(opener_rel(t)), 1, opener[t].i)

\* what a step of a thread inside open leaves alone
OpenFrame ==
    /\ UNCHANGED <<cwd, cache, dirtree, ambient, unpatched, hooked_instance, active, remote_up>>
    /\ UNCHANGED tokvars
    /\ UNCHANGED <<lockvars, statvars, extravars>>

\* line 258: the local open; FileNotFoundError leads to the download
OpenTry(t) ==
    /\ opener[t].pc = "idle"
    /\ LET o == u_open(disk, opener_path(t), "r") IN
       opener' = [opener EXCEPT ![t] =
                    IF o.st = "ok" THEN [@ EXCEPT !.pc = "opened"]
                    ELSE IF o.st = "ENOENT" THEN [@ EXCEPT !.pc = "fetch", !.missed = TRUE]
                    ELSE [@ EXCEPT !.pc = "done", !.st = o.st]]
    /\ UNCHANGED disk
    /\ OpenFrame

\* lines 260-261 and 270: resp = self._api_download_file_git(relative_path)
OpenFetch(t) ==
    /\ opener[t].pc = "fetch"
    /\ LET resp == api_download_file_git(opener[t].fs, opener_rel(t)) IN
       opener' = [opener EXCEPT ![t] =
                    IF resp.ok THEN [@ EXCEPT !.pc = "mkdirs", !.content = resp.content, !.i = 0]
                    ELSE [@ EXCEPT !.pc = "done", !.st = "ENOENT"]]
    /\ UNCHANGED disk
    /\ OpenFrame

\* line 262, _mkdirs: self.__stat(parent) of the next ancestor (or of the path itself)
OpenMkdirsStat(t) ==
    /\ opener[t].pc = "mkdirs"
    /\ opener' = [opener EXCEPT ![t] =
                    IF u_stat(disk, opener_dir(t)).st # "ok" THEN [@ EXCEPT !.pc = "mkdir"]
                    ELSE IF opener[t].i = Len(Parent(opener_rel(t))) THEN [@ EXCEPT !.pc = "create"]
                    ELSE [@ EXCEPT !.i = @ + 1]]
    /\ UNCHANGED disk
    /\ OpenFrame

\* line 262, _mkdirs: os.mkdir(parent) after the stat failed; FileExistsError is not caught
OpenMkdirsMkdir(t) ==
    /\ opener[t].pc = "mkdir"
    /\ LET q == opener_dir(t)
           err == IF WalkErr(disk, q, 0) # "ok" THEN WalkErr(disk, q, 0)
                  ELSE IF Node(disk, q) # "none" THEN "EEXIST"
                  ELSE IF q \notin DOMAIN disk THEN "EACCES"
                  ELSE "ok" IN
       /\ disk' = IF err = "ok" THEN [disk EXCEPT ![q] = "dir"] ELSE disk
       /\ opener' = [opener EXCEPT ![t] =
                       IF err # "ok" THEN [@ EXCEPT !.pc = "done", !.st = err]
                       ELSE IF opener[t].i = Len(Parent(opener_rel(t))) THEN [@ EXCEPT !.pc = "create"]
                       ELSE [@ EXCEPT !.pc = "mkdirs", !.i = @ + 1]]
    /\ OpenFrame

\* line 264: self.__open(relative_path, 'wb'): the file is created, or truncated
OpenCreate(t) ==
    /\ opener[t].pc = "create"
    /\ LET wr == u_open(disk, opener_path(t), "w") IN
       /\ disk' = wr.disk
       /\ opener' = [opener EXCEPT ![t] =
                       IF wr.st = "ok" THEN [@ EXCEPT !.pc = "write"]
                       ELSE [@ EXCEPT !.pc = "done", !.st = wr.st]]
    /\ OpenFrame

\* line 265 and the end of the with block: output.write(resp.content), close
OpenWrite(t) ==
    /\ opener[t].pc = "write"
    /\ disk' = [disk EXCEPT ![opener_path(t)] = opener[t].content]
    /\ opener' = [opener EXCEPT ![t].pc = "reopen"]
    /\ OpenFrame

\* line 266: return self.__open(relative_path, mode)
OpenReopen(t) ==
    /\ opener[t].pc = "reopen"
    /\ LET re == u_open(disk, opener_path(t), "r") IN
       opener' = [opener EXCEPT ![t] =
                    IF re.st = "ok" THEN [@ EXCEPT !.pc = "opened"]
                    ELSE [@ EXCEPT !.pc = "done", !.st = re.st]]
    /\ UNCHANGED disk
    /\ OpenFrame

\* the caller reads the handle open returned: the bytes the file holds at that moment
OpenRead(t) ==
    /\ opener[t].pc = "opened"
    /\ opener' = [opener EXCEPT ![t].pc = "done", ![t].got = <<disk[opener_path(t)]>>]
    /\ UNCHANGED disk
    /\ OpenFrame

\* the constructed instances, the remote answering or failing, and two threads about to
\* open the fixture file of one instance
OpenInit ==
    /\ FsInit
    /\ TokIdle
    /\ LockIdle
    /\ StatIdle /\ ExtraIdle
    /\ \E m \in Mounts : opener = [t \in Threads |-> OpenerIdle(m, FixtureArg(m))]

OpenNext ==
    \/ \E t \in Threads : OpenTry(t)
    \/ \E t \in Threads : OpenFetch(t)
    \/ \E t \in Threads : OpenMkdirsStat(t)
    \/ \E t \in Threads : OpenMkdirsMkdir(t)
    \/ \E t \in Threads : OpenCreate(t)
    \/ \E t \in Threads : OpenWrite(t)
    \/ \E t \in Threads : OpenReopen(t)
    \/ \E t \in Threads : OpenRead(t)

OpenSpec == OpenInit /\ [][OpenNext]_<<allvars, auxvars>>

-----------------------------------------------------------------------------
(* A program that calls the methods of the instances and keeps the synthetic *)
(* stat results it gets.                                                     *)

\* the instances the program calls
StatMounts == {1, 2}

\* the directories it lists and scans, relative to the working directory
StatListArgs == { RelArg(<<>>), RelArg(<<"a">>) }

\* the paths it stats and opens, relative to the working directory
StatPathArgs == { RelArg(<<"a", "b.txt">>), RelArg(<<"zzz">>) }

\* the roots of the instances, to change into
StatChdirArgs == { AbsArg(project_root(m)) : m \in StatMounts }

\* s = fs.stat(arg), kept when it is a dagshub_stat_result
StatKeep(m, arg) ==
    /\ stat_objs' = IF stat(m, arg).st = "ok" /\ stat(m, arg).kind = "synthetic"
                    THEN stat_objs \cup {StatResult(m, arg)}
                    ELSE stat_objs
    /\ UNCHANGED vars
    /\ UNCHANGED tokvars
    /\ UNCHANGED <<lockvars, openvars, extravars>>

\* s.<name> for a result s the program holds
GetAttr(s, name) ==
    /\ s \in stat_objs
    /\ disk' = getattr(s, name).out.disk
    /\ cache' = getattr(s, name).out.cache
    /\ dirtree' = getattr(s, name).out.dirtree
    /\ cwd' = getattr(s, name).out.cwd
    /\ stat_objs' = (stat_objs \ {s}) \cup {getattr(s, name).obj}
    /\ UNCHANGED <<ambient, unpatched, hooked_instance, active, remote_up>>
    /\ UNCHANGED tokvars
    /\ UNCHANGED <<lockvars, openvars, extravars>>

StatInit == FsInit /\ TokIdle /\ LockIdle /\ OpenIdle /\ StatIdle /\ ExtraIdle

StatNext ==
    \/ \E m \in StatMounts, a \in StatListArgs : Listdir(m, a)
    \/ \E m \in StatMounts, a \in StatListArgs : Scandir(m, a)
    \/ \E m \in StatMounts, a \in StatPathArgs : StatKeep(m, a)
    \/ \E s \in stat_objs, n \in StFields : GetAttr(s, n)
    \/ \E m \in StatMounts, a \in StatPathArgs : Open(m, a, "r")
    \/ \E m \in StatMounts, a \in StatChdirArgs : Chdir(m, a)

StatSpec == StatInit /\ [][StatNext]_<<allvars, auxvars>>

-----------------------------------------------------------------------------
(* A program that lists directories and calls _api_listdir of the instances *)
(* itself, with and without sizes.                                          *)

\* the instances the program calls
CacheMounts == {1, 2}

\* the relative paths it asks for
CacheRels == { <<>>, <<"a">>, <<"zzz">> }

\* fs._api_listdir(path, include_size)
ApiListdir(m, rel, include_size) ==
    /\ cache' = cache_by_path(cache, m, FALSE, rel, include_size).cache
    /\ UNCHANGED <<disk, cwd, dirtree, ambient, unpatched, hooked_instance, active, remote_up>>
    /\ UNCHANGED tokvars
    /\ UNCHANGED auxvars

CacheInit == FsInit /\ TokIdle /\ LockIdle /\ OpenIdle /\ StatIdle /\ ExtraIdle

CacheNext ==
    \/ \E m \in CacheMounts, rel \in CacheRels, inc \in BOOLEAN : ApiListdir(m, rel, inc)
    \/ \E m \in CacheMounts, a \in ListdirArgs : Listdir(m, a)

CacheSpec == CacheInit /\ [][CacheNext]_<<allvars, auxvars>>

-----------------------------------------------------------------------------
(* The revision of an instance: _current_revision behind lru_cache, while   *)
(* the branch of the remote moves.                                          *)

\* the commits the branch of the remote gets to: 1..MaxHead
MaxHead == 3

\* the instances the program calls
RevMounts == {1, 2}

\* the directories it lists
RevDirArgs == { AbsArg(<<"m", "a">>), AbsArg(<<"m", "repo2", "a">>) }

\* what HEAD of the local git project holds: a ref to a branch, or a commit
HeadKind(m) == IF m = 2 THEN "commit" ELSE "ref"

\* the commit of a detached HEAD
DetachedHead == 1

\* get_remote_branch_head: the head of the branch on the remote, RuntimeError unless 200
get_remote_branch_head ==
    IF remote_up THEN [st |-> "ok", sha |-> branch_head] ELSE [st |-> "RuntimeError", sha |-> 0]

\* is_commit_on_remote: the commits request answers 200
is_commit_on_remote(sha) == remote_up /\ sha <= branch_head

\* the body of _current_revision: the head of the branch HEAD names, or the commit of HEAD
\* when the remote has it
resolve_revision(m) ==
    IF HeadKind(m) = "ref" THEN get_remote_branch_head
    ELSE IF is_commit_on_remote(DetachedHead) THEN [st |-> "ok", sha |-> DetachedHead]
    ELSE [st |-> "RuntimeError", sha |-> 0]

\* _current_revision as a plain property: the body runs on every read
current_revision_unmemoized(memo, m) ==
    LET r == resolve_revision(m) IN
    [st |-> r.st, sha |-> r.sha,
     memo |-> IF r.st = "ok" THEN [memo EXCEPT ![m] = <<r.sha>>] ELSE memo]

\* self._current_revision: lru_cache keeps the value the body returned for the instance (a
\* call that raised is not kept)
current_revision(memo, m) ==
    IF memo[m] # <<>> THEN [st |-> "ok", sha |-> memo[m][1], memo |-> memo]
    ELSE LET r == resolve_revision(m) IN
         [st |-> r.st, sha |-> r.sha,
          memo |-> IF r.st = "ok" THEN [memo EXCEPT ![m] = <<r.sha>>] ELSE memo]

\* a call of instance m with outcome o: each request it sends is built from content_api_url
\* or raw_api_url, that is from _current_revision; when that raises, the call raises before
\* anything is sent or changed
RevApply(m, o) ==
    LET rv == current_revision(revision_cache, m) IN
    IF o.reqs = NoReqs
    THEN /\ disk' = o.disk /\ cache' = o.cache /\ dirtree' = o.dirtree /\ cwd' = o.cwd
         /\ UNCHANGED <<revision_cache, sent>>
    ELSE IF rv.st # "ok"
    THEN UNCHANGED <<disk, cache, dirtree, cwd, revision_cache, sent>>
    ELSE /\ disk' = o.disk /\ cache' = o.cache /\ dirtree' = o.dirtree /\ cwd' = o.cwd
         /\ revision_cache' = rv.memo
         /\ sent' = sent \cup { [fs |-> m, kind |-> r.kind, rel |-> r.rel, sha |-> rv.sha,
                                 head |-> branch_head] : r \in o.reqs }

\* what a call of an instance leaves alone
RevFrame ==
    /\ UNCHANGED <<ambient, unpatched, hooked_instance, active, remote_up, branch_head>>
    /\ UNCHANGED tokvars
    /\ UNCHANGED <<lockvars, openvars, statvars, storevars>>

\* fs.open(file)
RevOpen(m, arg) == RevApply(m, open(m, arg, "r")) /\ RevFrame

\* fs.listdir(path)
RevListdir(m, arg) == RevApply(m, listdir(m, arg)) /\ RevFrame

\* fs.chdir(path)
RevChdir(m, arg) == RevApply(m, chdir(m, arg)) /\ RevFrame

\* somebody pushes to the branch
HeadMoves ==
    /\ branch_head < MaxHead
    /\ branch_head' = branch_head + 1
    /\ UNCHANGED <<revision_cache, sent>>
    /\ UNCHANGED allvars
    /\ UNCHANGED <<lockvars, openvars, statvars, storevars>>

RevInit == FsInit /\ TokIdle /\ LockIdle /\ OpenIdle /\ StatIdle /\ ExtraIdle

RevNext ==
    \/ \E m \in RevMounts : RevOpen(m, FixtureArg(m))
    \/ \E m \in RevMounts, a \in RevDirArgs : RevListdir(m, a)
    \/ \E m \in RevMounts : RevChdir(m, AbsArg(project_root(m) \o <<"a">>))
    \/ HeadMoves

RevSpec == RevInit /\ [][RevNext]_<<allvars, auxvars>>

-----------------------------------------------------------------------------
(* A program that installs and uninstalls the hooks of the instances and    *)
(* opens files through the ambient open in between.                         *)

HookInit == FsInit /\ TokIdle /\ LockIdle /\ OpenIdle /\ StatIdle /\ ExtraIdle

HookNext ==
    \/ \E m \in Mounts : Install(m)
    \/ \E who \in Mounts \cup {0} : Uninstall(who)
    \/ \E how \in {"fs", "path"}, m \in Mounts : UninstallBy(how, m)
    \/ \E s \in {"builtins_open", "pathlib_open"}, a \in FileArgs : Open(ambient[s], a, "r")

HookSpec == HookInit /\ [][HookNext]_<<allvars, auxvars>>

-----------------------------------------------------------------------------
(* A process that starts over a cache file written by other versions of the *)
(* library or by hand, and uses the cache for the first time.               *)

\* entries of the file: two tokens, an entry without token_type, one of an unknown type,
\* one its deserializer rejects
FileEntries ==
    { serialize(TokA), serialize(TokR),
      [token_text |-> "A", expiry |-> "never"],
      [token_type |-> "legacy", token_text |-> "A", expiry |-> "never"],
      [token_type |-> "bearer"] }

\* the lists of entries of a host, up to n entries
EntryLists(n) == UNION { [1..k -> FileEntries] : k \in 0..n }

\* the first read of self._token_cache: the load, then remove_expired_tokens; a load that
\* raises leaves the cache unloaded
FirstUse ==
    /\ ~token_cache.loaded
    /\ load_outcome(token_file).st = "ok"
    /\ token_cache' = [loaded |-> TRUE, by_host |-> token_cache_of(token_cache, token_file).by_host]
    /\ token_file' = token_cache_of(token_cache, token_file).file
    /\ UNCHANGED <<known_good, now, config_token>>
    /\ UNCHANGED vars
    /\ UNCHANGED auxvars

ParseInit ==
    /\ FsInit
    /\ LockIdle
    /\ OpenIdle
    /\ StatIdle /\ ExtraIdle
    /\ remote_up
    /\ token_cache = NotLoaded
    /\ known_good = [h \in Hosts |-> {}]
    /\ now = 1
    /\ config_token = <<>>
    /\ \E v \in {"1", "2"}, l \in EntryLists(2), lx \in EntryLists(1) :
          token_file = [CacheFile((DefaultHost :> l) @@ ("x" :> lx)) EXCEPT !.version = v]

ParseNext == FirstUse \/ Tick

ParseSpec == ParseInit /\ [][ParseNext]_<<allvars, auxvars>>

-----------------------------------------------------------------------------
(* The module functions get_token / get_token_object under two threads: each  *)
(* call fetches the store with _get_token_storage and runs the method of the   *)
(* store under the store's own lock. A step is one statement of                *)
(* _get_token_storage or the entry or exit of the locked block; threads        *)
(* interleave freely.                                                          *)

MaxCalls == 2

StoreFrame ==
    /\ UNCHANGED allvars
    /\ UNCHANGED <<lockvars, openvars, statvars, revvars>>

\* a thread calls get_token_object(**kwargs) / get_token(**kwargs)
StoreCall(t) ==
    /\ caller[t].pc = "idle"
    /\ caller[t].calls < MaxCalls
    /\ caller' = [caller EXCEPT ![t].pc = "check", ![t].made = 0, ![t].storage = 0]
    /\ UNCHANGED <<token_storage, storage_locks>>
    /\ StoreFrame

\* if _token_storage is None:
StoreCheck(t) ==
    /\ caller[t].pc = "check"
    /\ caller' = [caller EXCEPT ![t].pc = IF token_storage = 0 THEN "construct" ELSE "return"]
    /\ UNCHANGED <<token_storage, storage_locks>>
    /\ StoreFrame

\* TokenStorage(**kwargs): a new instance with a lock of its own
StoreConstruct(t) ==
    /\ caller[t].pc = "construct"
    /\ storage_locks' = Append(storage_locks, 0)
    /\ caller' = [caller EXCEPT ![t].pc = "assign", ![t].made = Len(storage_locks) + 1]
    /\ UNCHANGED token_storage
    /\ StoreFrame

\* _token_storage = <the new instance>
StoreAssign(t) ==
    /\ caller[t].pc = "assign"
    /\ token_storage' = caller[t].made
    /\ caller' = [caller EXCEPT ![t].pc = "return"]
    /\ UNCHANGED storage_locks
    /\ StoreFrame

\* return _token_storage
StoreReturn(t) ==
    /\ caller[t].pc = "return"
    /\ caller' = [caller EXCEPT ![t].pc = "acquire", ![t].storage = token_storage]
    /\ UNCHANGED <<token_storage, storage_locks>>
    /\ StoreFrame

\* with self._token_access_lock: of the instance the thread got (a first acquisition: the
\* thread holds no lock when it enters)
StoreAcquire(t) ==
    /\ caller[t].pc = "acquire"
    /\ storage_locks[caller[t].storage] = 0
    /\ storage_locks' = [storage_locks EXCEPT ![caller[t].storage] = t]
    /\ caller' = [caller EXCEPT ![t].pc = "inside"]
    /\ UNCHANGED token_storage
    /\ StoreFrame

\* the locked block ends and the call returns
StoreRelease(t) ==
    /\ caller[t].pc = "inside"
    /\ storage_locks' = [storage_locks EXCEPT ![caller[t].storage] = 0]
    /\ caller' = [caller EXCEPT ![t].pc = "idle", ![t].calls = @ + 1]
    /\ UNCHANGED token_storage
    /\ StoreFrame

StoreInit == FsInit /\ TokIdle /\ LockIdle /\ OpenIdle /\ StatIdle /\ ExtraIdle

StoreNext ==
    \E t \in Callers :
        \/ StoreCall(t)
        \/ StoreCheck(t)
        \/ StoreConstruct(t)
        \/ StoreAssign(t)
        \/ StoreReturn(t)
        \/ StoreAcquire(t)
        \/ StoreRelease(t)

StoreSpec == StoreInit /\ [][StoreNext]_<<allvars, auxvars>>

-----------------------------------------------------------------------------
(* The properties.                                                         *)

\* arg names a path below the root of m that open, stat and listdir route to the remote
Routed(m, arg) ==
    /\ relative_path(m, arg).some
    /\ ~passthrough_path(relative_path(m, arg).rel)
    /\ relative_path(m, arg).rel # SPECIAL_FILE

RelOf(m, arg) == relative_path(m, arg).rel

LocalOf(m, arg) == project_root(m) \o relative_path(m, arg).rel

\* C1, first half: a read-mode open of a path that is a remote file and is missing on disk,
\* when it succeeds, returns the remote bytes and leaves them on disk at root/p; second half:
\* a read-mode open of a path that is a file on disk returns the disk's bytes, issues no
\* remote request and changes nothing
C1_OpenMaterializes ==
    \A m \in Mounts, arg \in OpenArgs :
        Routed(m, arg) =>
            LET o == open(m, arg, "r")
                p == LocalOf(m, arg)
                rel == RelOf(m, arg) IN
            /\ (Node(disk, p) = "none" /\ RemoteIsFile(m, rel) /\ o.st = "ok")
                   => (o.disk[p] = RepoFiles(m)[rel] /\ o.data = RepoFiles(m)[rel])
            /\ IsFileNode(Node(disk, p))
                   => (o.st = "ok" /\ o.reqs = NoReqs /\ o.data = disk[p] /\ o.disk = disk)

\* C1, the "every later open" part: no call removes or changes a file that is on disk
C1_FilesStay ==
    \A p \in AbsPaths : IsFileNode(disk[p]) => disk'[p] = disk[p]

\* C1: after one successful read-mode open of a remote-only path p the file is on disk at
\* root/p with the remote bytes, and every later read-mode open of p is served from disk
\* without a remote request
C1_Materialize == [](C1_OpenMaterializes) /\ [][C1_FilesStay]_vars

\* C1 happens: a remote file of m was materialized and m's next read of it is served from disk
C1_Witness ==
    \E m \in Mounts, arg \in FileArgs :
        /\ Routed(m, arg)
        /\ RemoteIsFile(m, RelOf(m, arg))
        /\ Node(disk, LocalOf(m, arg)) = RepoFiles(m)[RelOf(m, arg)]
        /\ open(m, arg, "r").reqs = NoReqs
        /\ open(m, arg, "r").data = RepoFiles(m)[RelOf(m, arg)]

\* p is neither on disk nor in the repository of m
AbsentBoth(m, arg) ==
    /\ Routed(m, arg)
    /\ orig_stat(disk, LocalOf(m, arg)).st = "ENOENT"
    /\ ~RemoteIsFile(m, RelOf(m, arg))
    /\ ~RemoteIsDir(m, RelOf(m, arg))

\* C2: in every reachable state, open and stat of a path that is absent on disk and in
\* the repository raise not-found (also once listdir has recorded the parent's listing)
C2_AbsentNotFound ==
    \A m \in Mounts, arg \in OpenArgs \cup StatArgs :
        AbsentBoth(m, arg) =>
            /\ open(m, arg, "r").st = "ENOENT"
            /\ stat(m, arg).st = "ENOENT"

\* the names on disk under the directory arg names
LocalNames(m, arg) ==
    IF orig_listdir(disk, LocalOf(m, arg)).st = "ok"
    THEN orig_listdir(disk, LocalOf(m, arg)).names
    ELSE {}

\* the names the repository of m lists for the directory arg names
RemoteNames(m, arg) == { f.name : f \in ContentResponse(m, RelOf(m, arg)).entries }

\* C3: listdir of a directory the repository of m lists returns exactly the names on disk,
\* the names of the remote listing and, at the root, the sentinel name
C3_ListdirUnion ==
    \A m \in Mounts, arg \in ListdirArgs :
        (Routed(m, arg) /\ remote_up /\ RemoteIsDir(m, RelOf(m, arg))) =>
            /\ listdir(m, arg).st = "ok"
            /\ listdir(m, arg).names =
                   LocalNames(m, arg) \cup RemoteNames(m, arg)
                   \cup (IF RelOf(m, arg) = <<>> THEN {SPECIAL_FILE[1]} ELSE {})

StrictPrefix(s, t) == IsPrefix(s, t) /\ Len(s) < Len(t)

\* C4: with mounts a and b installed and root(a) a strict prefix of root(b), an ambient
\* open of a path below root(b) asks only the repository of b and, for a remote-only
\* file, returns b's bytes
C4_LongestPrefix ==
    \A a \in active, b \in active :
        StrictPrefix(project_root(a), project_root(b)) =>
            \A s \in OpenSlots, arg \in OpenArgs :
                Routed(b, arg) =>
                    LET o == call_open(ambient[s], arg, "r") IN
                    /\ \A r \in o.reqs : r.fs = b
                    /\ (remote_up /\ Node(disk, LocalOf(b, arg)) = "none" /\ RemoteIsFile(b, RelOf(b, arg)))
                           => (o.st = "ok" /\ o.data = RepoFiles(b)[RelOf(b, arg)])

\* C5: with two mounts of distinct roots installed, an ambient open of the remote-only
\* file below each root returns the bytes of that root's repository
C5_BothServed ==
    \A m1 \in active, m2 \in active :
        (/\ project_root(m1) # project_root(m2)
         /\ \A x \in active \ {m1} : project_root(x) # project_root(m1)
         /\ remote_up
         /\ Node(disk, LocalOf(m1, FixtureArg(m1))) = "none")
            => LET o == call_open(ambient.builtins_open, FixtureArg(m1), "r") IN
               o.st = "ok" /\ o.data = RepoFiles(m1)[<<"a", "b.txt">>]

\* C6: install_hooks of a mount whose root is the root of another installed mount raises
\* FilesystemAlreadyMountedError and changes nothing
C6_SameRootRejected ==
    \A m \in Mounts :
        (\E x \in active \ {m} : project_root(x) = project_root(m)) =>
            /\ install_hooks(m).st = "FilesystemAlreadyMountedError"
            /\ install_hooks(m).ambient = ambient
            /\ install_hooks(m).unpatched = unpatched
            /\ install_hooks(m).hooked_instance = hooked_instance

\* C7: in every reachable state uninstall_hooks() leaves every ambient primitive that
\* install_hooks replaces at the value it had before any install
C7_UninstallRestores ==
    \A s \in Slots : uninstall_hooks.ambient[s] = Original

\* C8: get_mounted_filesystems is exactly the mounts installed and not uninstalled since
C8_MountedIsActive ==
    get_mounted_filesystems = { <<project_root(m), m>> : m \in active }

\* C9: with several mounts installed, uninstall_hooks(fs=m) and uninstall_hooks(path=root(m))
\* return normally, leave no ambient primitive bound to m and leave the primitives bound to
\* another mount as they are; uninstall_hooks() leaves no primitive bound to any mount
C9_UninstallByRemovesOne ==
    Cardinality(active) >= 2 =>
        /\ \A m \in active, how \in {"fs", "path"} :
               /\ uninstall_hooks_by(how, m).st = "ok"
               /\ \A s \in Slots :
                      /\ uninstall_hooks_by(how, m).ambient[s] # m
                      /\ ambient[s] \in active \ {m} => uninstall_hooks_by(how, m).ambient[s] = ambient[s]
        /\ \A s \in Slots : uninstall_hooks.ambient[s] \notin Mounts

-----------------------------------------------------------------------------
(* The properties of the credential store.                                  *)

\* the environment token answers for host
EnvApplies(host) == host = DefaultHost /\ config_token # <<>>

\* the tokens stored for host: the in-memory list, or the file's entries before the first use
stored_tokens(host) ==
    LET c == IF token_cache.loaded THEN token_cache.by_host ELSE load_cache_file(token_file) IN
    IF host \in DOMAIN c THEN c[host] ELSE <<>>

AllExpired(host) == \A i \in 1..Len(stored_tokens(host)) : is_expired(stored_tokens(host)[i])

\* C11: in every reachable state and for every answer of the identity endpoint and of the
\* OAuth flow, a token get_token_object returns is not expired at the instant of the call;
\* and when every stored token of the host is expired (and no environment token answers
\* for the host) get_token_object(fail_if_no_token=True) raises RuntimeError
C11_NeverExpired ==
    \A h \in Hosts : \A f \in BOOLEAN, srv \in SrvFor(h), fl \in BOOLEAN :
        LET o == get_token_object(h, f, srv, fl) IN
        /\ o.st = "ok" => (o.ret # <<>> /\ ~is_expired(o.ret[1]))
        /\ (f /\ ~EnvApplies(h) /\ AllExpired(h)) => (o.st = "RuntimeError" /\ o.ret = <<>>)

\* C11 happens: the list of a host holds expired tokens only, one of them validated earlier
\* in this process, and get_token_object(fail_if_no_token=True) raises
C11_Witness ==
    \E h \in Hosts :
        /\ ~EnvApplies(h)
        /\ token_cache.loaded
        /\ Len(stored_tokens(h)) >= 1
        /\ AllExpired(h)
        /\ \E t \in known_good[h] : is_expired(t)
        /\ get_token_object(h, TRUE, <<>>, TRUE).st = "RuntimeError"

\* the entries of host in the cache file f, deserialized
file_tokens(f, host) ==
    IF f.exists /\ host \in DOMAIN f.by_host THEN deserialize_all(f.by_host[host]) ELSE <<>>

NoneExpired(s) == \A i \in 1..Len(s) : ~is_expired(s[i])

\* C12: when the cache is loaded and pruned (the first use of _token_cache), for every host
\* of the file the in-memory list is the file's list without its expired tokens, in the
\* file's order, and the file then holds no expired token
C12_PrunedOnLoad ==
    ~token_cache.loaded =>
        LET c0 == load_cache_file(token_file)
            tc == token_cache_of(token_cache, token_file) IN
        \A h \in DOMAIN c0 :
            /\ tc.by_host[h] = SelectSeq(c0[h], LAMBDA t : ~is_expired(t))
            /\ NoneExpired(file_tokens(tc.file, h))

\* the claimed verdict of is_valid_token
ClaimedValid(r) ==
    \/ (200 <= r.status /\ r.status <= 299 /\ r.login)
    \/ (500 <= r.status /\ r.status <= 599)

\* C13: for every response of the identity endpoint is_valid_token is true iff the status
\* is 2xx with a login field or the status is 5xx (seen through add_app_token, which
\* inserts the token iff is_valid_token is true)
C13_ValidIff ==
    \A r \in Responses :
        /\ is_valid_token(r) <=> ClaimedValid(r)
        /\ (add_app_token("B", DefaultHost, ("B" :> r)).st = "ok") <=> ClaimedValid(r)

\* the identity endpoint rejects the token text under srv
Rejects(srv, text) == reply(srv, text) # RequestFailed /\ ~is_valid_token(reply(srv, text))

InSeq(t, s) == \E i \in 1..Len(s) : s[i] = t

\* C14: for every call of get_token_object, a stored token of the host that the call
\* validated and is_valid_token rejected is, when the call ends, in neither the host's
\* in-memory list, nor the known-good set, nor the host's entries of the file
C14_RejectedRemoved ==
    \A h \in Hosts : \A f \in BOOLEAN, srv \in SrvFor(h), fl \in BOOLEAN :
        ~EnvApplies(h) =>
            LET o == get_token_object(h, f, srv, fl)
                l == tokens_of(h) IN
            \A i \in 1..Len(l) :
                (l[i].token_text \in o.asked /\ Rejects(srv, l[i].token_text)) =>
                    /\ h \in DOMAIN o.mem.by_host => ~InSeq(l[i], o.mem.by_host[h])
                    /\ l[i] \notin o.good[h]
                    /\ ~InSeq(l[i], file_tokens(o.file, h))

\* t, stored for host, does not survive the search under srv: it is expired, or it is
\* not known good and the identity endpoint rejects it
Discarded(host, srv, t) ==
    is_expired(t) \/ (t \notin known_good[host] /\ Rejects(srv, t.token_text))

NoSurvivor(host, srv) ==
    \A i \in 1..Len(tokens_of(host)) : Discarded(host, srv, tokens_of(host)[i])

\* C15: when no stored token of the host survives expiry and validation (and no environment
\* token answers for the host), get_token_object(fail_if_no_token=True) raises RuntimeError
\* and starts no OAuth flow; get_token_object(fail_if_no_token=False) starts the flow once
\* and its token is returned, is the host's list (after the discarded ones left), is in the
\* known-good set, and the file holds the in-memory cache
C15_NoSurvivor ==
    \A h \in Hosts : \A srv \in SrvFor(h) :
        (~EnvApplies(h) /\ NoSurvivor(h, srv)) =>
            /\ \A fl \in BOOLEAN :
                  /\ get_token_object(h, TRUE, srv, fl).st = "RuntimeError"
                  /\ get_token_object(h, TRUE, srv, fl).flows = 0
            /\ LET o == get_token_object(h, FALSE, srv, TRUE) IN
               /\ o.st = "ok"
               /\ o.flows = 1
               /\ o.ret = <<oauth_flow(h)>>
               /\ o.mem.by_host[h] = <<oauth_flow(h)>>
               /\ oauth_flow(h) \in o.good[h]
               /\ o.file = store_cache_file(o.mem.by_host)

\* C15 happens: the list of a host is the one token an OAuth flow issued, it is known good,
\* the file holds it and the next call returns it
C15_Witness ==
    \E h \in Hosts :
        /\ ~EnvApplies(h)
        /\ token_cache.loaded
        /\ h \in DOMAIN token_cache.by_host
        /\ Len(token_cache.by_host[h]) = 1
        /\ token_cache.by_host[h][1].token_text = FlowText(0)
        /\ token_cache.by_host[h][1] \in known_good[h]
        /\ token_file = store_cache_file(token_cache.by_host)
        /\ get_token_object(h, TRUE, <<>>, TRUE).ret = token_cache.by_host[h]

\* C16: when an environment token is configured, get_token_object for the default host
\* returns an EnvVar token with that text, leaves the in-memory cache (loaded or not), the
\* known-good set and the file as they are, writes no file, validates nothing and starts
\* no flow; and no entry of the file is an EnvVar token
C16_EnvToken ==
    /\ EnvApplies(DefaultHost) =>
          \A f \in BOOLEAN, srv \in SrvFor(DefaultHost), fl \in BOOLEAN :
              LET o == get_token_object(DefaultHost, f, srv, fl) IN
              /\ o.st = "ok"
              /\ o.ret = <<EnvVarDagshubToken(config_token[1])>>
              /\ o.mem = token_cache
              /\ o.good = known_good
              /\ o.file = token_file
              /\ ~o.stored
              /\ o.asked = {}
              /\ o.flows = 0
    /\ token_file.exists =>
          \A h \in DOMAIN token_file.by_host :
              \A i \in 1..Len(token_file.by_host[h]) : token_file.by_host[h][i].token_type # "env-var"

\* C16 happens: the environment token is set, the store was used (another host, or an
\* add) and the default host's list holds an expired token the cache path would remove
C16_Witness ==
    /\ EnvApplies(DefaultHost)
    /\ token_cache.loaded
    /\ \E i \in 1..Len(stored_tokens(DefaultHost)) : is_expired(stored_tokens(DefaultHost)[i])
    /\ get_token_object(DefaultHost, TRUE, <<>>, TRUE).ret = <<EnvVarDagshubToken("E")>>

\* t at position i of l comes before u at position j in ascending priority, insertion order
\* among equal priorities
Before(l, i, j) ==
    priority(l[i]) < priority(l[j]) \/ (priority(l[i]) = priority(l[j]) /\ i < j)

\* C17: a stored token that get_token_object returns is not expired and is known good or
\* accepted by the identity endpoint, and every token of the host that comes before it in
\* ascending priority (insertion order among equals) is expired, or not known good and
\* rejected; when the call goes on to the OAuth flow or raises for lack of a token, every
\* stored token is
C17_PriorityOrder ==
    \A h \in Hosts : \A f \in BOOLEAN, srv \in SrvFor(h), fl \in BOOLEAN :
        ~EnvApplies(h) =>
            LET o == get_token_object(h, f, srv, fl)
                l == tokens_of(h) IN
            /\ (o.st = "ok" /\ o.flows = 0) =>
                  \E i \in 1..Len(l) :
                      /\ o.ret = <<l[i]>>
                      /\ ~is_expired(l[i])
                      /\ (l[i] \in known_good[h] \/ is_valid_token(reply(srv, l[i].token_text)))
                      /\ \A j \in 1..Len(l) : Before(l, j, i) => Discarded(h, srv, l[j])
            /\ (o.flows = 1 \/ o.st = "RuntimeError") => NoSurvivor(h, srv)

\* C17 happens: an OAuth token stands before an app token in the list, neither is expired,
\* an earlier call validated the app token and the call returns it
C17_Witness ==
    \E h \in Hosts :
        /\ ~EnvApplies(h)
        /\ Len(tokens_of(h)) >= 2
        /\ \E i \in 1..Len(tokens_of(h)), j \in 1..Len(tokens_of(h)) :
              /\ i < j
              /\ priority(tokens_of(h)[j]) < priority(tokens_of(h)[i])
              /\ ~is_expired(tokens_of(h)[i])
              /\ tokens_of(h)[j] \in known_good[h]
              /\ get_token_object(h, TRUE, <<>>, TRUE).ret = <<tokens_of(h)[j]>>

\* C18: add_app_token raises InvalidTokenError and leaves the in-memory cache and the file
\* as they are when is_valid_token rejects the token; when is_valid_token accepts it, the
\* token is appended to the host's list and the file holds the in-memory cache
C18_AddAppToken ==
    \A h \in Hosts, x \in {"A", "B"}, r \in Responses :
        LET o == add_app_token(x, h, (x :> r)) IN
        /\ ~is_valid_token(r) =>
              /\ o.st = "InvalidTokenError"
              /\ o.mem = token_cache
              /\ o.file = token_file
              /\ ~o.stored
        /\ is_valid_token(r) =>
              /\ o.st = "ok"
              /\ o.mem.by_host[h] = Append(tokens_of(h), AppDagshubToken(x))
              /\ \A g \in DOMAIN o.mem.by_host \ {h} : o.mem.by_host[g] = tokens_of(g)
              /\ o.file = store_cache_file(o.mem.by_host)
              /\ o.stored

\* C18 happens: an app token that add_app_token validated is the last of the default host's
\* list in memory and in the file, and a further add_app_token that the endpoint rejects
\* raises
C18_Witness ==
    /\ token_cache.loaded
    /\ DefaultHost \in DOMAIN token_cache.by_host
    /\ Len(token_cache.by_host[DefaultHost]) >= 2
    /\ token_cache.by_host[DefaultHost][Len(token_cache.by_host[DefaultHost])] = TokB
    /\ token_file = store_cache_file(token_cache.by_host)
    /\ add_app_token("B", DefaultHost, ("B" :> Response(401, FALSE))).st = "InvalidTokenError"

-----------------------------------------------------------------------------
(* The properties of the sentinel file.                                     *)

SentinelArg(m) == AbsArg(project_root(m) \o SPECIAL_FILE)

C20_SentinelStat ==
    \A m \in Mounts :
        LET o == stat(m, SentinelArg(m)) IN
        /\ o.st = "ok"
        /\ o.kind = "synthetic"
        /\ dagshub_stat_result.st_size = 3
        /\ dagshub_stat_result.st_mode = "0o100644"
        /\ dagshub_stat_result.st_atime = 0
        /\ dagshub_stat_result.st_mtime = 0
        /\ dagshub_stat_result.st_ctime = 0

-----------------------------------------------------------------------------
(* The properties under threads.                                            *)

\* C21: for every interleaving of add_app_token / add_oauth_token in one thread with
\* get_token_object in another on the same host, once both calls have ended the host's
\* in-memory list and the host's entries of the cache file hold every token a call inserted
\* (and get_token_object did not remove as expired or rejected)
C21_NoTokenLost ==
    (adder.pc = "done" /\ getter.pc = "done") =>
        \A t \in inserted :
            /\ InSeq(t, stored_tokens(LockHost))
            /\ InSeq(t, file_tokens(token_file, LockHost))

\* the bytes of the remote file thread t's call is about
opener_bytes(t) == RepoFiles(opener[t].fs)[opener_rel(t)]

\* C22: when two threads open the same remote-only path for reading and both miss locally
\* (the remote answering), then under every interleaving, once both calls and reads have
\* ended, each open returned normally a handle that read the complete remote bytes, and the
\* file on disk holds the complete remote bytes
C22_BothComplete ==
    (\A t \in Threads : opener[t].pc = "done" /\ opener[t].missed /\ remote_up) =>
        \A t \in Threads :
            /\ opener[t].st = "ok"
            /\ opener[t].got = <<opener_bytes(t)>>
            /\ disk[opener_path(t)] = opener_bytes(t)

\* C23: while a thread downloads a remote-only path, the file at mount_root/p is at every
\* moment absent or holds the complete remote bytes, and a read-mode open of p by another
\* thread never reads empty or partial content
C23_AtomicMaterialize ==
    \A t \in Threads :
        remote_up =>
            /\ Node(disk, opener_path(t)) \in {"none", opener_bytes(t)}
            /\ opener[t].got \in {<<>>, <<opener_bytes(t)>>}

-----------------------------------------------------------------------------
(* The properties of routing: reserved paths, paths outside the mounts,      *)
(* write modes, remote errors, synthetic stat results.                       *)

\* paths below a reserved prefix of the mount at /m: a file on disk, two paths not on disk
ReservedArgs ==
    { AbsArg(<<"m", ".git", "config">>), AbsArg(<<"m", ".git", "objects">>),
      AbsArg(<<"m", ".dvc", "cache">>) }

\* C24: for every path below a reserved prefix (.git/, .dvc/) of a mount, on disk or not,
\* open, stat, listdir, scandir and chdir give what the original primitive gives on the
\* local path and send no remote request
C24_ReservedLocal ==
    \A m \in Mounts, arg \in ReservedArgs :
        (relative_path(m, arg).some /\ passthrough_path(RelOf(m, arg))) =>
            LET p == LocalOf(m, arg) IN
            /\ open(m, arg, "r").st = orig_open(disk, p, "r").st
            /\ open(m, arg, "r").data = orig_open(disk, p, "r").data
            /\ open(m, arg, "r").reqs = NoReqs
            /\ stat(m, arg).st = orig_stat(disk, p).st
            /\ stat(m, arg).kind = orig_stat(disk, p).kind
            /\ stat(m, arg).reqs = NoReqs
            /\ listdir(m, arg).st = orig_listdir(disk, p).st
            /\ listdir(m, arg).names = orig_listdir(disk, p).names
            /\ listdir(m, arg).reqs = NoReqs
            /\ scandir(m, arg).st = orig_scandir(disk, p).st
            /\ scandir(m, arg).names = orig_scandir(disk, p).names
            /\ scandir(m, arg).reqs = NoReqs
            /\ chdir(m, arg).st = orig_chdir(disk, p)
            /\ chdir(m, arg).reqs = NoReqs
            /\ chdir(m, arg).cache = cache

\* paths no mount contains: a file, a directory, a path that does not exist
OutsideArgs == { AbsArg(<<"o.txt">>), AbsArg(<<>>), AbsArg(<<"nope">>) }

\* C25: for every path that the mount does not contain, open, stat, listdir, scandir and
\* chdir of the mount give what the original primitive gives for the same argument and send
\* no remote request; scandir yields the entries the original scandir yields
C25_OutsidePassThrough ==
    \A m \in Mounts, arg \in OutsideArgs :
        ~relative_path(m, arg).some =>
            LET p == Resolve(cwd, arg) IN
            /\ open(m, arg, "r").st = orig_open(disk, p, "r").st
            /\ open(m, arg, "r").data = orig_open(disk, p, "r").data
            /\ open(m, arg, "r").reqs = NoReqs
            /\ stat(m, arg).st = orig_stat(disk, p).st
            /\ stat(m, arg).kind = orig_stat(disk, p).kind
            /\ stat(m, arg).reqs = NoReqs
            /\ listdir(m, arg).st = orig_listdir(disk, p).st
            /\ listdir(m, arg).names = orig_listdir(disk, p).names
            /\ listdir(m, arg).reqs = NoReqs
            /\ chdir(m, arg).st = orig_chdir(disk, p)
            /\ chdir(m, arg).reqs = NoReqs
            /\ scandir(m, arg).st = orig_scandir(disk, p).st
            /\ scandir(m, arg).reqs = NoReqs
            /\ scandir(m, arg).names = orig_scandir(disk, p).names

\* C26: open with a write mode of a path a mount routes gives what the original open gives
\* on the local path (also not-found for a missing parent directory), sends no remote
\* request and leaves on disk what the original open leaves
C26_WriteLocalOnly ==
    \A m \in Mounts, arg \in OpenArgs :
        Routed(m, arg) =>
            /\ open(m, arg, "w").st = orig_open(disk, LocalOf(m, arg), "w").st
            /\ open(m, arg, "w").reqs = NoReqs
            /\ open(m, arg, "w").disk = orig_open(disk, LocalOf(m, arg), "w").disk

\* C27: a read-mode open that misses locally raises not-found when the raw API answers 404
\* and RemoteError when it answers another status outside 2xx; in both cases the disk is
\* left as it is
C27_RemoteStatus ==
    \A m \in Mounts, arg \in OpenArgs :
        (Routed(m, arg) /\ orig_open(disk, LocalOf(m, arg), "r").st = "ENOENT") =>
            LET o == open(m, arg, "r")
                s == raw_status(m, RelOf(m, arg)) IN
            /\ s = 404 => o.st = "ENOENT"
            /\ (s # 404 /\ ~(200 <= s /\ s <= 299)) => o.st = "RemoteError"
            /\ ~(200 <= s /\ s <= 299) => o.disk = disk

\* C28: stat of a path a mount routes that is missing on disk, when the instance has
\* recorded no listing at all or the repository holds the path, returns normally a
\* synthetic result (regular file 0o644, uid and gid of the process, zeroed timestamps, the
\* placeholder size) and sends no remote request
C28_SyntheticStat ==
    \A m \in Mounts, arg \in StatArgs :
        (/\ Routed(m, arg)
         /\ orig_stat(disk, LocalOf(m, arg)).st = "ENOENT"
         /\ \/ dirtree[m] = <<>>
            \/ RemoteIsFile(m, RelOf(m, arg))
            \/ RemoteIsDir(m, RelOf(m, arg)))
            => /\ stat(m, arg).st = "ok"
               /\ stat(m, arg).kind = "synthetic"
               /\ stat(m, arg).reqs = NoReqs
               /\ dagshub_stat_result.st_mode = "0o100644"
               /\ dagshub_stat_result.st_uid = "getuid"
               /\ dagshub_stat_result.st_gid = "getgid"
               /\ dagshub_stat_result.st_mtime = 0

\* C29: a synthetic stat result the program holds for a remote file reports, once the file
\* is materialized on disk (a successful open), the size, mode and timestamps of the local
\* file
C29_BackedAfterOpen ==
    \A s \in stat_objs :
        (/\ relative_path(s.fs, s.path).some
         /\ RemoteIsFile(s.fs, RelOf(s.fs, s.path))
         /\ IsFileNode(Node(disk, LocalOf(s.fs, s.path))))
            => \A n \in {"st_size", "st_mode", "st_atime", "st_mtime", "st_ctime"} :
                   getattr(s, n).value = <<real_stat(disk, LocalOf(s.fs, s.path))[n]>>

\* the call with outcome o sent no raw-file download and created or changed no file
NoFetch(o) ==
    /\ \A r \in o.reqs : r.kind # "raw"
    /\ \A p \in AbsPaths : IsFileNode(Node(o.disk, p)) => o.disk[p] = disk[p]

\* the attributes of a synthetic stat result the claim names
PlainFields == {"st_size", "st_mode", "st_uid", "st_gid", "st_atime", "st_mtime", "st_ctime"}

\* C30: in every reachable state listdir, scandir and stat of every instance, and reading
\* the size, mode, uid, gid or a timestamp of a synthetic stat result, send no raw-file
\* download and create no file under the mount root
C30_OnlyOpenMaterializes ==
    /\ \A m \in Mounts, a \in ListdirArgs \cup StatListArgs :
          NoFetch(listdir(m, a)) /\ NoFetch(scandir(m, a))
    /\ \A m \in Mounts, a \in StatArgs \cup StatPathArgs : NoFetch(stat(m, a))
    /\ \A s \in stat_objs, n \in PlainFields : NoFetch(getattr(s, n).out)

\* C30 happens: the program holds a synthetic stat result of a remote file whose parent it
\* listed, the file is not on disk, and reading the size answers the placeholder without a
\* request
C30_Witness ==
    \E s \in stat_objs :
        /\ s.true_stat = <<>>
        /\ relative_path(s.fs, s.path).some
        /\ RemoteIsFile(s.fs, RelOf(s.fs, s.path))
        /\ ParentKey(RelOf(s.fs, s.path)) \in DOMAIN dirtree[s.fs]
        /\ Node(disk, LocalOf(s.fs, s.path)) = "none"
        /\ getattr(s, "st_size").value = <<1100>>
        /\ getattr(s, "st_size").out.reqs = NoReqs
        /\ getattr(s, "st_size").out.disk = disk

\* every ancestor of p below the root of m, and p itself
MirrorDirs(m, p) == { SubSeq(p, 1, i) : i \in (Len(project_root(m)) + 1)..Len(p) }

\* C31: chdir of a path below a mount that is missing on disk: when the repository of the
\* mount reports the path as a directory, the path and its missing ancestors become empty
\* directories, nothing else on disk changes and the working directory is the path; when it
\* does not (an absent path, a file, a remote that fails), chdir raises not-found and the
\* disk is left as it is
C31_ChdirMirrors ==
    \A m \in Mounts, arg \in MirrorArgs :
        (relative_path(m, arg).some /\ orig_chdir(disk, LocalOf(m, arg)) = "ENOENT") =>
            LET o == chdir(m, arg)
                p == LocalOf(m, arg) IN
            IF remote_up /\ RemoteIsDir(m, RelOf(m, arg))
            THEN /\ o.st = "ok"
                 /\ o.cwd = p
                 /\ \A q \in MirrorDirs(m, p) : o.disk[q] = "dir"
                 /\ \A q \in AbsPaths \ MirrorDirs(m, p) : o.disk[q] = disk[q]
            ELSE /\ o.st = "ENOENT"
                 /\ o.disk = disk
                 /\ o.cwd = cwd

\* the directories a program lists and scans: roots, remote directories, paths nobody holds
FailArgs ==
    ListdirArgs \cup StatListArgs \cup
    { AbsArg(<<"m", "a">>), AbsArg(<<"m", "repo2", "a">>), AbsArg(<<"m", "zzz">>),
      RelArg(<<"zzz">>) }

\* the names of a listing without the sentinel name
Plain(names) == names \ {SPECIAL_FILE[1]}

\* C32: listdir and scandir of a directory a mount routes, by the local listing and the
\* listing response the instance gets: when exactly one of them fails both calls return
\* the names of the other (and at most the sentinel name) without an error; when both
\* fail, both calls raise an error
C32_FailuresAlike ==
    \A m \in Mounts, arg \in FailArgs :
        Routed(m, arg) =>
            LET loc == orig_listdir(disk, LocalOf(m, arg))
                resp == api_listdir(cache, m, FALSE, RelOf(m, arg)).resp
                rnames == { f.name : f \in resp.entries }
                l == listdir(m, arg)
                s == scandir(m, arg) IN
            /\ (loc.st = "ok" /\ ~resp.ok) =>
                  /\ l.st = "ok" /\ Plain(l.names) = Plain(loc.names)
                  /\ s.st = "ok" /\ Plain(s.names) = Plain(loc.names)
            /\ (loc.st # "ok" /\ resp.ok) =>
                  /\ l.st = "ok" /\ Plain(l.names) = Plain(rnames)
                  /\ s.st = "ok" /\ Plain(s.names) = Plain(rnames)
            /\ (loc.st # "ok" /\ ~resp.ok) => (l.st # "ok" /\ s.st # "ok")

\* the relative paths instances list: the root (as __init__ names it, a str), directories
\* of the repositories and a path no repository holds
ListedRels == { <<>>, <<"a">>, <<"repo2">>, <<"repo2", "a">>, <<"zzz">> }

\* the responses the remote of m can give for rel: its listing of the directory, or a
\* response that is not ok
OwnResponses(m, rel) ==
    {[ok |-> FALSE, entries |-> {}]} \cup (IF RemoteIsDir(m, rel) THEN {Listing(m, rel)} ELSE {})

\* C33: in every reachable state, the response _api_listdir hands to an instance for a
\* relative path (the root listing of the constructor included) is a response of the
\* repository of that instance, never the response another instance fetched
C33_OwnListingCache ==
    \A m \in Mounts, isStr \in BOOLEAN, rel \in ListedRels :
        api_listdir(cache, m, isStr, rel).resp \in OwnResponses(m, rel)

C35_RevisionFixed ==
    \A r1 \in sent, r2 \in sent : r1.fs = r2.fs => r1.sha = r2.sha

\* C35 happens: an instance that follows a branch has sent a listing request and a raw
\* request, the branch of the remote moved between the two, and both name the commit the
\* instance resolved first
C35_Witness ==
    \E r1 \in sent, r2 \in sent :
        /\ r1.fs = r2.fs
        /\ r1.kind = "list" /\ r2.kind = "raw"
        /\ HeadKind(r1.fs) = "ref"
        /\ r1.head # r2.head
        /\ r1.sha = r2.sha
        /\ revision_cache[r1.fs] = <<r1.sha>>

\* the saved originals are the primitives of before any install
Genuine ==
    unpatched.set =>
        \A k \in {"open", "stat", "listdir", "scandir", "chdir"} : unpatched[k] = Original

\* a second install_hooks of m changes nothing and the saved originals are genuine
InstalledOnce(m) ==
    /\ install_hooks(m).st = "ok"
    /\ install_hooks(m).ambient = ambient
    /\ install_hooks(m).unpatched = unpatched
    /\ install_hooks(m).hooked_instance = hooked_instance
    /\ Genuine

\* an uninstall_hooks raises nothing and leaves the ambient primitives as they are
UninstallKeeps == uninstall_hooks.st = "ok" /\ uninstall_hooks.ambient = ambient

\* C36: after every install_hooks of an instance, another install_hooks of the same
\* instance raises nothing and leaves the ambient primitives, the saved originals (still
\* the genuine ones) and the hooked instance as they are; after every uninstall_hooks, and
\* in every state before any install, uninstall_hooks raises nothing and leaves the ambient
\* primitives as they are
C36_InstallIdempotent ==
    /\ [](~unpatched.set => UninstallKeeps)
    /\ [][/\ \A m \in Mounts : Install(m) => InstalledOnce(m)'
          /\ \A who \in Mounts \cup {0} : Uninstall(who) => UninstallKeeps']_vars

\* C36 happens: an instance is hooked after another one was, the class holds the saved
\* originals, and install_hooks of the instance again would change nothing
C36_Witness ==
    \E m \in Mounts :
        /\ ambient = [s \in Slots |-> m]
        /\ hooked_instance = m
        /\ active \ {m} # {}
        /\ InstalledOnce(m)

\* the entry can be turned into a token
Convertible(e) == ~RaisesKeyError(e) /\ Deserializable(e)

\* C37: loading a cache file of schema version "1" never fails, whatever entries it holds,
\* and gives for every host with entries the tokens of its convertible entries in their
\* order (the others are skipped); loading a file of another version fails
C37_SkipBadEntries ==
    token_file.exists =>
        LET o == load_outcome(token_file) IN
        IF token_file.version # "1" THEN o.st # "ok"
        ELSE /\ o.st = "ok"
             /\ DOMAIN o.res = { h \in DOMAIN token_file.by_host : Len(token_file.by_host[h]) > 0 }
             /\ \A h \in DOMAIN o.res :
                   o.res[h] = deserialize_all(SelectSeq(token_file.by_host[h], Convertible))

\* t is the token a search of the host's list meets first, expired tokens aside
Leads(t, host) ==
    LET q == token_queue(tokens_of(host)) IN
    \E i \in 1..Len(q) : q[i] = t /\ \A j \in 1..(i - 1) : is_expired(q[j])

\* what a call adds to the known-good set of its host passed its validation request in
\* this call or is the token the OAuth flow issued in it; the sets of other hosts are left
KnownGoodEarned(o, host, srv) ==
    /\ \A t \in o.good[host] \ known_good[host] :
          \/ t.token_text \in o.asked /\ is_valid_token(reply(srv, t.token_text))
          \/ o.flows = 1 /\ t = oauth_flow(host)
    /\ \A h \in Hosts \ {host} : o.good[h] = known_good[h]

\* C38 as stated: a known-good token is never validated again, a known-good token that
\* leads the host's list is returned by every call without a validation request, and the
\* known-good set gains only tokens that passed validation or came from the OAuth flow
C38_AlwaysReturned ==
    \A host \in Hosts, fail \in BOOLEAN, flow_ok \in BOOLEAN :
        (host = DefaultHost => config_token = <<>>) =>
            \A srv \in SrvFor(host) :
                LET o == get_token_object(host, fail, srv, flow_ok) IN
                /\ \A t \in known_good[host] : t.token_text \notin o.asked
                /\ \A t \in known_good[host] :
                      Leads(t, host) => (o.st = "ok" /\ o.ret = <<t>> /\ o.asked = {})
                /\ KnownGoodEarned(o, host, srv)

\* C38, amended: a known-good token is never validated again, a known-good token that
\* leads the host's list and has not expired is returned by every call without a
\* validation request, and the known-good set gains only tokens that passed validation or
\* came from the OAuth flow
C38_ValidatedOnce ==
    \A host \in Hosts, fail \in BOOLEAN, flow_ok \in BOOLEAN :
        (host = DefaultHost => config_token = <<>>) =>
            \A srv \in SrvFor(host) :
                LET o == get_token_object(host, fail, srv, flow_ok) IN
                /\ \A t \in known_good[host] : t.token_text \notin o.asked
                /\ \A t \in known_good[host] :
                      (Leads(t, host) /\ ~is_expired(t)) =>
                          (o.st = "ok" /\ o.ret = <<t>> /\ o.asked = {})
                /\ KnownGoodEarned(o, host, srv)

\* C38 happens: a stored token of the default host is known good and not expired, behind
\* it the list holds another token, and a call returns it without asking the endpoint
C38_Witness ==
    /\ config_token = <<>>
    /\ \E t \in known_good[DefaultHost] :
          /\ Leads(t, DefaultHost)
          /\ ~is_expired(t)
          /\ Len(tokens_of(DefaultHost)) > 1
          /\ \A srv \in SrvFor(DefaultHost) :
                /\ get_token_object(DefaultHost, TRUE, srv, TRUE).ret = <<t>>
                /\ get_token_object(DefaultHost, TRUE, srv, TRUE).asked = {}

\* C39: however two threads interleave in their first calls, at most one TokenStorage
\* instance is ever constructed, every thread that fetched the store got the same
\* instance, and no two threads are inside the locked block at once
C39_OneStore ==
    /\ Len(storage_locks) <= 1
    /\ \A t, u \in Callers :
          (caller[t].storage # 0 /\ caller[u].storage # 0) =>
              caller[t].storage = caller[u].storage
    /\ \A t, u \in Callers :
          (caller[t].pc = "inside" /\ caller[u].pc = "inside") => t = u

\* the tokens of the host in the in-memory cache of an outcome
mem_tokens(mem, host) ==
    IF host \in DOMAIN mem.by_host THEN mem.by_host[host] ELSE <<>>

\* the file of an outcome holds the tokens of its in-memory cache, host by host and in the
\* same order (a cache that was never loaded holds nothing to compare)
Mirrored(o) ==
    o.mem.loaded => \A h \in Hosts : file_tokens(o.file, h) = mem_tokens(o.mem, h)

\* C40: however a call of get_token_object or add_token ends (a token returned,
\* RuntimeError, an exception of the validation request or of the OAuth flow), the
\* cache file then holds exactly the tokens of the in-memory cache, per host and in order
C40_FileMirrorsCache ==
    /\ \A host \in Hosts, fail \in BOOLEAN, flow_ok \in BOOLEAN :
          \A srv \in SrvFor(host) : Mirrored(get_token_object(host, fail, srv, flow_ok))
    /\ \A host \in Hosts, srv \in SrvChoices :
          Mirrored(add_app_token("B", host, srv))
    /\ \A host \in Hosts, flow_ok \in BOOLEAN : Mirrored(add_oauth_token(host, flow_ok))

====
